---- MODULE Spec2Model ----
(***************************************************************************)
(* A model of leptonica's enhance.c (gamma / contrast tone reproduction    *)
(* curves and their application to images) and pixconv.c (depth and        *)
(* colour-space conversion, exact colour quantisation).                    *)
(*                                                                         *)
(* Each library function is one action: it draws its arguments from small  *)
(* sets, runs the function's code on them and records the call, the heap   *)
(* before the call, the heap after it and the value returned.  The         *)
(* quantiser's pixel scan is modelled one pixel per step.                  *)
(*                                                                         *)
(* Numbers.  A 32-bit word is kept as its four bytes, most significant     *)
(* first, and image data as the flat byte array data[0 .. 4*wpl*h-1].      *)
(* Floating point expressions of the source are evaluated exactly, as      *)
(* rationals with integer numerators; for the expressions translated this  *)
(* way the result of the C code has been compared with the exact value on  *)
(* all the arguments the model uses.  Where the C result depends on how a  *)
(* rounding tie falls, or is undefined, the model takes every outcome.     *)
(***************************************************************************)
EXTENDS Integers, Sequences, FiniteSets, TLC

VARIABLES
    call,     \* the call made: [op |-> name, ...arguments]; op = "none" before it
    heap0,    \* the images as they were when the call was made
    heap,     \* the images now: address -> PIX
    ret,      \* the value returned: an address (0 is NULL) or an l_int32 status
    na,       \* the NUMA built by numaGammaTRC / numaContrastTRC, or handed to pixTRCMap
    nerr,     \* the caller's l_int32 that pnerrors points to
    q,        \* pixConvertRGBToColormap's locals during its pixel scan
    out       \* what a colour conversion stored through its three result pointers

vars == <<call, heap0, heap, ret, na, nerr, q, out>>

(***************************************************************************)
(* Bounds of the model.                                                    *)
(***************************************************************************)
\* how far beyond [0, 255] the minval / maxval arguments are taken
MaxOut == 3
\* largest image width and height, in pixels
MaxW == 4
MaxH == 4

(***************************************************************************)
(* Arithmetic helpers.                                                     *)
(***************************************************************************)
L_MIN(a, b) == IF a < b THEN a ELSE b
L_MAX(a, b) == IF a > b THEN a ELSE b

RECURSIVE Pow2(_)
Pow2(n) == IF n = 0 THEN 1 ELSE 2 * Pow2(n - 1)

\* C's integer division truncates toward zero; \div floors.
CDiv(a, b) == IF a >= 0 THEN a \div b ELSE -((-a) \div b)

NULL == 0

\* the most negative l_int32
INT_MIN == -2147483647 - 1

(***************************************************************************)
(* enhance.c: numaGammaTRC                                                 *)
(***************************************************************************)
\* gamma is an l_float32; the model takes it in halves: gamma = g2 / 2.
Gammas2 == {-2, 0, 1, 2, 4}

\* if (gamma <= 0.0) gamma = 1.0
GammaFix(g2) == IF g2 <= 0 THEN 2 ELSE g2

\* The largest v in lo..hi with v = 0 or (2v - 1)^2 * d <= 4 * c * n, which is
\* floor(sqrt(c * n / d) + 1/2); with half = 0, the largest v with
\* v^2 * d <= c * n, which is floor(sqrt(c * n / d)).
RECURSIVE RoundSqrt(_, _, _, _, _, _)
RoundSqrt(lo, hi, c, n, d, half) ==
    IF lo >= hi THEN lo
    ELSE LET m == (lo + hi + 1) \div 2
             fits == IF half = 1 THEN (2 * m - 1) * (2 * m - 1) * d <= 4 * c * n
                     ELSE m * m * d <= c * n
         IN  IF fits THEN RoundSqrt(m, hi, c, n, d, half)
             ELSE RoundSqrt(lo, m - 1, c, n, d, half)

\* GammaPow without the + 0.5: the conversion truncates instead of rounding
GammaPowDropRound(g2, n, d) ==
    CASE g2 = 2 -> (255 * n) \div d
      [] g2 = 1 -> (255 * n * n) \div (d * d)
      [] g2 = 4 -> RoundSqrt(0, 256, 65025, n, d, 0)

\* (l_int32)(255. * pow(x, invgamma) + 0.5) with x = n / d, 0 <= n, 0 < d,
\* for invgamma = 1 / gamma in {1, 2, 1/2}:
\*   floor(255 n/d + 1/2), floor(255 (n/d)^2 + 1/2), floor(255 sqrt(n/d) + 1/2)
GammaPow(g2, n, d) ==
    CASE g2 = 2 -> (510 * n + d) \div (2 * d)
      [] g2 = 1 -> (510 * n * n + d * d) \div (2 * d * d)
      [] g2 = 4 -> RoundSqrt(0, 256, 65025, n, d, 1)

\* one iteration of the middle loop: the value appended for index i
GammaVal(g2, minval, maxval, i) ==
    LET val == GammaPow(g2, i - minval, maxval - minval)
    IN  L_MIN(L_MAX(val, 0), 255)

\* the number of iterations of for (i = from; i < to; i++)
LoopCount(from, to) == IF to > from THEN to - from ELSE 0

\* The three loops of numaGammaTRC, for minval < maxval.  The first appends
\* a 0 for each i in 0 .. minval-1; the second appends GammaVal for each i in
\* minval .. maxval that is not skipped (i < 0 or i > 255); the third
\* appends 255 for each i in maxval+1 .. 255.  Entry k (from 1) of the result:
numaGammaTRC(g2in, minval, maxval) ==
    LET g2 == GammaFix(g2in)
        n1 == LoopCount(0, minval)
        first == L_MAX(minval, 0)
        n2 == LoopCount(first, L_MIN(maxval, 255) + 1)
        n3 == LoopCount(maxval + 1, 256)
    IN  [k \in 1..(n1 + n2 + n3) |->
            IF k <= n1 THEN 0
            ELSE IF k <= n1 + n2 THEN GammaVal(g2, minval, maxval, first + (k - n1 - 1))
            ELSE 255]

(***************************************************************************)
(* enhance.c: numaContrastTRC                                              *)
(***************************************************************************)
\* numaMakeSequence(0, 1, 256)
numaMakeSequence(start, inc, size) == [k \in 1..size |-> start + inc * (k - 1)]

\* The contrast factors of the model: -1.0 and 0.0.  For factor > 0 the
\* table needs atan of non-zero arguments, which the model does not compute.
Factors == {-1, 0}

\* What (l_int32) of a NaN may give: the conversion is undefined in C.  x86's
\* cvttsd2si gives INT_MIN, a saturating conversion (ARM, RISC-V) gives 0.
NaNToInt == {INT_MIN, 0}

\* For factor = 0: ymax = atan(0) = 0, ymin = atan(-0.) = -0., dely = 0, so
\* 255. / dely is +inf, the bracket is -ymin + atan(+-0.) = 0, inf * 0 is NaN
\* and so is NaN + 0.5; every one of the 256 entries is (l_int32)NaN.
numaContrastTRC(factor, nan) ==
    IF factor < 0 THEN numaMakeSequence(0, 1, 256)
    ELSE [k \in 1..256 |-> nan]

(***************************************************************************)
(* Images (PIX) and the heap.                                              *)
(*                                                                         *)
(* A PIX is w x h pixels of d bits, packed into rows of wpl 32-bit words;  *)
(* data is the flat byte array, byte k (from 0) of row i at position       *)
(* 4*wpl*i + k + 1, each word's most significant byte first.  An address   *)
(* is 1 .. 4; NULL is 0; a free address holds NoPix.                       *)
(***************************************************************************)
NoPix == [w |-> 0, h |-> 0, d |-> 0, wpl |-> 0, data |-> <<>>,
          hascmap |-> FALSE, cmap |-> <<>>]

\* pixCreate's words per line
Wpl(w, d) == (w * d + 31) \div 32

\* byte k of row i of the image whose pixel (i, j) is f[i, j], for every j
\* of the padded row; a 32 bpp pixel is its four bytes <<r, g, b, a>>
PackedByte(f, d, i, k) ==
    IF d = 32 THEN f[i, k \div 4][(k % 4) + 1]
    ELSE IF d = 16 THEN (IF k % 2 = 0 THEN f[i, k \div 2] \div 256
                                      ELSE f[i, k \div 2] % 256)
    ELSE LET ppb == 8 \div d
             S[t \in 0..ppb] ==
                 IF t = ppb THEN 0
                 ELSE f[i, k * ppb + t] * Pow2(d * (ppb - 1 - t)) + S[t + 1]
         IN  S[0]

\* pixCreate(w, h, d) with the pixels (and padding) set from f
MakePix(w, h, d, f) ==
    LET wpl == Wpl(w, d)
    IN  [w |-> w, h |-> h, d |-> d, wpl |-> wpl,
         data |-> [b \in 1..(4 * wpl * h) |->
                      PackedByte(f, d, (b - 1) \div (4 * wpl), (b - 1) % (4 * wpl))],
         hascmap |-> FALSE, cmap |-> <<>>]

\* pixCreate(w, h, d): all data zero, no colormap
pixCreate(w, h, d) ==
    LET wpl == Wpl(w, d)
    IN  [w |-> w, h |-> h, d |-> d, wpl |-> wpl,
         data |-> [b \in 1..(4 * wpl * h) |-> 0],
         hascmap |-> FALSE, cmap |-> <<>>]

\* pixSetColormap
WithCmap(pix, cmap) == [pix EXCEPT !.hascmap = TRUE, !.cmap = cmap]

\* the pixels of a padded row, as indices
RowPixels(w, d) == 0..((32 * Wpl(w, d)) \div d - 1)

\* the arrayaccess macros, on the flat data with line the row's byte offset
GET_DATA_BYTE(data, line, n) == data[line + n + 1]
GET_DATA_BIT(data, line, n) ==
    (data[line + (n \div 8) + 1] \div Pow2(7 - (n % 8))) % 2
GET_DATA_DIBIT(data, line, n) ==
    (data[line + (n \div 4) + 1] \div Pow2(6 - 2 * (n % 4))) % 4
GET_DATA_QBIT(data, line, n) ==
    (data[line + (n \div 2) + 1] \div Pow2(4 - 4 * (n % 2))) % 16

\* the value of pixel (i, j), as pixGetPixel reads it (32 bpp: four bytes)
GetPixel(pix, i, j) ==
    LET line == 4 * pix.wpl * i
    IN  CASE pix.d = 1 -> GET_DATA_BIT(pix.data, line, j)
          [] pix.d = 2 -> GET_DATA_DIBIT(pix.data, line, j)
          [] pix.d = 4 -> GET_DATA_QBIT(pix.data, line, j)
          [] pix.d = 8 -> GET_DATA_BYTE(pix.data, line, j)
          [] pix.d = 16 -> 256 * pix.data[line + 2 * j + 1] + pix.data[line + 2 * j + 2]
          [] pix.d = 32 -> <<pix.data[line + 4 * j + 1], pix.data[line + 4 * j + 2],
                             pix.data[line + 4 * j + 3], pix.data[line + 4 * j + 4]>>

Addrs == 1..4

EmptyHeap == [a \in Addrs |-> NoPix]

\* the address a new PIX gets: the lowest free one
NewAddr(hp) == CHOOSE a \in Addrs : hp[a] = NoPix /\ \A b \in Addrs : hp[b] = NoPix => a <= b

\* ERROR_PTR(msg, procName, pval): report, and return pval
ERROR_PTR(pval) == pval

\* bitwise or and the bytes of an l_int32 (byte 0 the least significant)
RECURSIVE BitOr(_, _)
BitOr(a, b) ==
    IF a = 0 THEN b
    ELSE IF b = 0 THEN a
    ELSE (IF a % 2 = 1 \/ b % 2 = 1 THEN 1 ELSE 0) + 2 * BitOr(a \div 2, b \div 2)

IntByte(t, k) == (t \div Pow2(8 * k)) % 256

(***************************************************************************)
(* enhance.c: pixTRCMap                                                    *)
(***************************************************************************)
\* tab[v], with tab[i] = numaGetIValue(na, i)
Tab(tab, v) == tab[v + 1]

\* dval32 = tab[sval32 >> 24] << 24 | tab[(sval32 >> 16) & 0xff] << 16 |
\*          tab[(sval32 >> 8) & 0xff] << 8, as four bytes; px is sval32's bytes
TRCWord(tab, px) ==
    LET tr == Tab(tab, px[1])
        tg == Tab(tab, px[2])
        tb == Tab(tab, px[3])
    IN  << BitOr(IntByte(tr, 0), BitOr(IntByte(tg, 1), IntByte(tb, 2))),
           BitOr(IntByte(tg, 0), IntByte(tb, 1)),
           IntByte(tb, 0),
           0 >>

\* TRCMapped without the test of j against the mask's width
TRCMappedNoWidthClip(ps, pixm, pm, i, j) ==
    /\ i < ps.h /\ j < ps.w
    /\ pixm # NULL => /\ i < pm.h
                      /\ GET_DATA_BIT(pm.data, 4 * pm.wpl * i, j) # 0

\* whether the loops reach pixel (i, j) and map it: without a mask every
\* i < h, j < w; with one, the row loop breaks at i >= hm, the column loop
\* at j >= wm, and a pixel whose mask bit is 0 is skipped
TRCMapped(ps, pixm, pm, i, j) ==
    /\ i < ps.h /\ j < ps.w
    /\ pixm # NULL => /\ i < pm.h /\ j < pm.w
                      /\ GET_DATA_BIT(pm.data, 4 * pm.wpl * i, j) # 0

\* the data of pixs after the loops; every pixel is read and written once
TRCMapData(ps, pixm, pm, tab) ==
    [b \in 1..Len(ps.data) |->
        LET i == (b - 1) \div (4 * ps.wpl)
            k == (b - 1) % (4 * ps.wpl)
            j == IF ps.d = 8 THEN k ELSE k \div 4
        IN  IF ~TRCMapped(ps, pixm, pm, i, j) THEN ps.data[b]
            ELSE IF ps.d = 8 THEN IntByte(Tab(tab, ps.data[b]), 0)
            ELSE TRCWord(tab, GetPixel(ps, i, j))[(k % 4) + 1]]

\* pixTRCMap(pixs, pixm, na): [ret, heap]; hasna says na is not NULL
pixTRCMap(hp, pixs, pixm, tab, hasna) ==
    IF pixs = NULL THEN [ret |-> 1, heap |-> hp]
    ELSE IF hp[pixs].hascmap THEN [ret |-> 1, heap |-> hp]
    ELSE IF ~hasna THEN [ret |-> 1, heap |-> hp]
    ELSE IF Len(tab) # 256 THEN [ret |-> 1, heap |-> hp]
    ELSE IF hp[pixs].d # 8 /\ hp[pixs].d # 32 THEN [ret |-> 1, heap |-> hp]
    ELSE IF pixm # NULL /\ hp[pixm].d # 1 THEN [ret |-> 1, heap |-> hp]
    ELSE [ret |-> 0,
          heap |-> [hp EXCEPT ![pixs].data =
                       TRCMapData(hp[pixs], pixm,
                                  IF pixm = NULL THEN NoPix ELSE hp[pixm], tab)]]

(***************************************************************************)
(* enhance.c: pixGammaTRC, pixGammaTRCMasked, pixContrastTRC,              *)
(* pixContrastTRCMasked                                                    *)
(***************************************************************************)
\* colormap.c: every component of every entry goes through the table
CmapThroughTable(cmap, tab) ==
    [k \in 1..Len(cmap) |->
        << IntByte(Tab(tab, cmap[k][1]), 0), IntByte(Tab(tab, cmap[k][2]), 0),
           IntByte(Tab(tab, cmap[k][3]), 0) >>]

pixcmapGammaTRC(cmap, g2, minval, maxval) ==
    CmapThroughTable(cmap, numaGammaTRC(g2, minval, maxval))

pixcmapContrastTRC(cmap, factor, nan) ==
    CmapThroughTable(cmap, numaContrastTRC(factor, nan))

\* without the copy: a null pixd is answered with pixs itself
CopyIfNullIsPixs(hp, pixd, pixs) == [pixd |-> pixs, heap |-> hp]

\* pixd = pixCopy(NULL, pixs) when pixd is NULL: [pixd, heap]
CopyIfNull(hp, pixd, pixs) ==
    IF pixd = NULL
    THEN [pixd |-> NewAddr(hp), heap |-> [hp EXCEPT ![NewAddr(hp)] = hp[pixs]]]
    ELSE [pixd |-> pixd, heap |-> hp]

pixGammaTRC(hp, pixd, pixs, g2in, minval, maxval) ==
    IF pixs = NULL THEN [ret |-> ERROR_PTR(pixd), heap |-> hp]
    ELSE IF pixd # NULL /\ pixd # pixs THEN [ret |-> ERROR_PTR(pixd), heap |-> hp]
    ELSE IF minval >= maxval THEN [ret |-> ERROR_PTR(pixd), heap |-> hp]
    ELSE IF ~hp[pixs].hascmap /\ hp[pixs].d # 8 /\ hp[pixs].d # 32
         THEN [ret |-> ERROR_PTR(pixd), heap |-> hp]
    ELSE LET g2 == GammaFix(g2in)
             c == CopyIfNull(hp, pixd, pixs)
         IN  IF hp[pixs].hascmap
             THEN [ret |-> c.pixd,
                   heap |-> [c.heap EXCEPT ![c.pixd].cmap =
                                pixcmapGammaTRC(@, g2, minval, maxval)]]
             ELSE [ret |-> c.pixd,
                   heap |-> pixTRCMap(c.heap, c.pixd, NULL,
                                      numaGammaTRC(g2, minval, maxval), TRUE).heap]

\* pixGammaTRCMasked without its own argument checks: the mask is dropped
pixGammaTRCMaskedDropsMask(hp, pixd, pixs, pixm, g2in, minval, maxval) ==
    pixGammaTRC(hp, pixd, pixs, g2in, minval, maxval)

pixGammaTRCMasked(hp, pixd, pixs, pixm, g2in, minval, maxval) ==
    IF pixm = NULL THEN pixGammaTRC(hp, pixd, pixs, g2in, minval, maxval)
    ELSE IF pixs = NULL THEN [ret |-> ERROR_PTR(pixd), heap |-> hp]
    ELSE IF hp[pixs].hascmap THEN [ret |-> ERROR_PTR(pixd), heap |-> hp]
    ELSE IF pixd # NULL /\ pixd # pixs THEN [ret |-> ERROR_PTR(pixd), heap |-> hp]
    ELSE IF hp[pixs].d # 8 /\ hp[pixs].d # 32 THEN [ret |-> ERROR_PTR(pixd), heap |-> hp]
    ELSE IF minval >= maxval THEN [ret |-> ERROR_PTR(pixd), heap |-> hp]
    ELSE LET g2 == GammaFix(g2in)
             c == CopyIfNull(hp, pixd, pixs)
         IN  [ret |-> c.pixd,
              heap |-> pixTRCMap(c.heap, c.pixd, pixm,
                                 numaGammaTRC(g2, minval, maxval), TRUE).heap]

\* pixClone(pixs) is another handle on the same PIX: the same address
pixClone(pixs) == pixs

pixContrastTRC(hp, pixd, pixs, factor, nan) ==
    IF pixs = NULL THEN [ret |-> ERROR_PTR(pixd), heap |-> hp]
    ELSE IF pixd # NULL /\ pixd # pixs THEN [ret |-> ERROR_PTR(pixd), heap |-> hp]
    ELSE IF factor < 0 THEN [ret |-> pixClone(pixs), heap |-> hp]
    ELSE IF ~hp[pixs].hascmap /\ hp[pixs].d # 8 /\ hp[pixs].d # 32
         THEN [ret |-> ERROR_PTR(pixd), heap |-> hp]
    ELSE LET c == CopyIfNull(hp, pixd, pixs)
         IN  IF hp[pixs].hascmap
             THEN [ret |-> c.pixd,
                   heap |-> [c.heap EXCEPT ![c.pixd].cmap =
                                pixcmapContrastTRC(@, factor, nan)]]
             ELSE [ret |-> c.pixd,
                   heap |-> pixTRCMap(c.heap, c.pixd, NULL,
                                      numaContrastTRC(factor, nan), TRUE).heap]

pixContrastTRCMasked(hp, pixd, pixs, pixm, factor, nan) ==
    IF pixm = NULL THEN pixContrastTRC(hp, pixd, pixs, factor, nan)
    ELSE IF pixs = NULL THEN [ret |-> ERROR_PTR(pixd), heap |-> hp]
    ELSE IF hp[pixs].hascmap THEN [ret |-> ERROR_PTR(pixd), heap |-> hp]
    ELSE IF pixd # NULL /\ pixd # pixs THEN [ret |-> ERROR_PTR(pixd), heap |-> hp]
    ELSE IF hp[pixs].d # 8 /\ hp[pixs].d # 32 THEN [ret |-> ERROR_PTR(pixd), heap |-> hp]
    ELSE IF factor < 0 THEN [ret |-> pixClone(pixs), heap |-> hp]
    ELSE LET c == CopyIfNull(hp, pixd, pixs)
         IN  [ret |-> c.pixd,
              heap |-> pixTRCMap(c.heap, c.pixd, pixm,
                                 numaContrastTRC(factor, nan), TRUE).heap]

(***************************************************************************)
(* pixconv.c: convertRGBToHSV, convertHSVToRGB                             *)
(***************************************************************************)
\* convertRGBToHSV without "if (h < 0.0) h += 240.0"; the conversion of a
\* negative h + 0.5 truncates towards 0
convertRGBToHSVNoWrap(rval, gval, bval) ==
    LET min == L_MIN(L_MIN(rval, gval), bval)
        max == L_MAX(L_MAX(rval, gval), bval)
        delta == max - min
        hn == IF rval = max THEN 40 * (gval - bval)
              ELSE IF gval = max THEN 40 * (2 * delta + (bval - rval))
              ELSE 40 * (4 * delta + (rval - gval))
    IN  IF delta = 0 THEN <<0, 0, max>>
        ELSE << IF 2 * hn + delta >= 0 THEN (2 * hn + delta) \div (2 * delta)
                ELSE -((-(2 * hn + delta)) \div (2 * delta)),
                (510 * delta + max) \div (2 * max),
                max >>

\* <<h, s, v>>.  s = (l_int32)(255. * delta / max + 0.5); h is 40 times
\* (g - b) / delta, 2 + (b - r) / delta or 4 + (r - g) / delta, plus 240 if
\* negative, and hval = (l_int32)(h + 0.5).  With h = hn / delta:
convertRGBToHSV(rval, gval, bval) ==
    LET min == L_MIN(L_MIN(rval, gval), bval)
        max == L_MAX(L_MAX(rval, gval), bval)
        delta == max - min
        h40 == IF rval = max THEN 40 * (gval - bval)
               ELSE IF gval = max THEN 40 * (2 * delta + (bval - rval))
               ELSE 40 * (4 * delta + (rval - gval))
        hn == IF h40 < 0 THEN h40 + 240 * delta ELSE h40
    IN  IF delta = 0 THEN <<0, 0, max>>
        ELSE << (2 * hn + delta) \div (2 * delta),
                (510 * delta + max) \div (2 * max),
                max >>

\* How a rounding tie of y or z falls.  s and f are l_float32, so when
\* vval * (1. - s * f) + 0.5 is exactly an integer t the value computed is
\* t or a little less, and the conversion gives t (0) or t - 1 (1).
HSVTies == {0, 1}

\* (l_int32)(num / den) for num / den >= 0, a tie (num / den an integer)
\* falling as tie says
TieFloor(num, den, tie) ==
    IF num % den = 0 THEN num \div den - tie ELSE num \div den

\* convertHSVToRGB with the test of hval moved before the test of sval
convertHSVToRGBHueFirst(hvalin, sval, vval, ty, tz) ==
    IF hvalin < 0 \/ hvalin > 240 THEN [rc |-> 1, rgb |-> <<>>]
    ELSE IF sval = 0 THEN [rc |-> 0, rgb |-> <<vval, vval, vval>>]
    ELSE LET hval == IF hvalin = 240 THEN 0 ELSE hvalin
             i == hval \div 40
             fn == hval % 40
             x == (2 * vval * (255 - sval) + 255) \div 510
             y == TieFloor(2 * vval * (10200 - sval * fn) + 10200, 20400, ty)
             z == TieFloor(2 * vval * (10200 - sval * (40 - fn)) + 10200, 20400, tz)
         IN  [rc |-> 0,
              rgb |-> CASE i = 0 -> <<vval, z, x>>
                        [] i = 1 -> <<y, vval, x>>
                        [] i = 2 -> <<x, vval, z>>
                        [] i = 3 -> <<x, y, vval>>
                        [] i = 4 -> <<z, x, vval>>
                        [] i = 5 -> <<vval, x, y>>]

\* convertHSVToRGB without "if (hval == 240) hval = 0": i is 6 then, and the
\* switch returns 1
convertHSVToRGBKeeps240(hvalin, sval, vval, ty, tz) ==
    IF sval = 0 THEN [rc |-> 0, rgb |-> <<vval, vval, vval>>]
    ELSE IF hvalin < 0 \/ hvalin > 240 THEN [rc |-> 1, rgb |-> <<>>]
    ELSE LET i == hvalin \div 40
             fn == hvalin % 40
             x == (2 * vval * (255 - sval) + 255) \div 510
             y == TieFloor(2 * vval * (10200 - sval * fn) + 10200, 20400, ty)
             z == TieFloor(2 * vval * (10200 - sval * (40 - fn)) + 10200, 20400, tz)
         IN  IF i > 5 THEN [rc |-> 1, rgb |-> <<>>]
             ELSE [rc |-> 0,
                   rgb |-> CASE i = 0 -> <<vval, z, x>>
                             [] i = 1 -> <<y, vval, x>>
                             [] i = 2 -> <<x, vval, z>>
                             [] i = 3 -> <<x, y, vval>>
                             [] i = 4 -> <<z, x, vval>>
                             [] i = 5 -> <<vval, x, y>>]

\* [rc, rgb]: rc = 1 and nothing stored for an invalid hval.  With
\* f = fn / 40 and s = sval / 255:
\*   x = (l_int32)(vval * (1. - s) + 0.5)
\*   y = (l_int32)(vval * (1. - s * f) + 0.5)
\*   z = (l_int32)(vval * (1. - s * (1. - f)) + 0.5)
convertHSVToRGB(hvalin, sval, vval, ty, tz) ==
    IF sval = 0 THEN [rc |-> 0, rgb |-> <<vval, vval, vval>>]
    ELSE IF hvalin < 0 \/ hvalin > 240 THEN [rc |-> 1, rgb |-> <<>>]
    ELSE LET hval == IF hvalin = 240 THEN 0 ELSE hvalin
             i == hval \div 40
             fn == hval % 40
             x == (2 * vval * (255 - sval) + 255) \div 510
             y == TieFloor(2 * vval * (10200 - sval * fn) + 10200, 20400, ty)
             z == TieFloor(2 * vval * (10200 - sval * (40 - fn)) + 10200, 20400, tz)
         IN  [rc |-> 0,
              rgb |-> CASE i = 0 -> <<vval, z, x>>
                        [] i = 1 -> <<y, vval, x>>
                        [] i = 2 -> <<x, vval, z>>
                        [] i = 3 -> <<x, y, vval>>
                        [] i = 4 -> <<z, x, vval>>
                        [] i = 5 -> <<vval, x, y>>]

(***************************************************************************)
(* pixconv.c: pixConvertRGBToHSV, pixConvertHSVToRGB                       *)
(***************************************************************************)
\* colormap.c: every entry converted
pixcmapConvertRGBToHSV(cmap) ==
    [k \in 1..Len(cmap) |-> convertRGBToHSV(cmap[k][1], cmap[k][2], cmap[k][3])]

\* an entry convertHSVToRGB rejects is left as it is
pixcmapConvertHSVToRGB(cmap, ty, tz) ==
    [k \in 1..Len(cmap) |->
        LET c == convertHSVToRGB(cmap[k][1], cmap[k][2], cmap[k][3], ty, tz)
        IN  IF c.rc = 0 THEN c.rgb ELSE cmap[k]]

\* line[j] = (hval << 24) | (sval << 16) | (vval << 8) for every pixel
RGBToHSVData(pd) ==
    [b \in 1..Len(pd.data) |->
        LET i == (b - 1) \div (4 * pd.wpl)
            k == (b - 1) % (4 * pd.wpl)
            px == GetPixel(pd, i, k \div 4)
            hsv == convertRGBToHSV(px[1], px[2], px[3])
        IN  IF k \div 4 >= pd.w THEN pd.data[b]
            ELSE IF k % 4 = 3 THEN 0
            ELSE hsv[(k % 4) + 1]]

pixConvertRGBToHSV(hp, pixd, pixs) ==
    IF pixs = NULL THEN [ret |-> ERROR_PTR(pixd), heap |-> hp]
    ELSE IF pixd # NULL /\ pixd # pixs THEN [ret |-> ERROR_PTR(pixd), heap |-> hp]
    ELSE IF ~hp[pixs].hascmap /\ hp[pixs].d # 32
         THEN [ret |-> ERROR_PTR(pixd), heap |-> hp]
    ELSE LET c == CopyIfNull(hp, pixd, pixs)
         IN  IF c.heap[c.pixd].hascmap
             THEN [ret |-> c.pixd,
                   heap |-> [c.heap EXCEPT ![c.pixd].cmap = pixcmapConvertRGBToHSV(@)]]
             ELSE [ret |-> c.pixd,
                   heap |-> [c.heap EXCEPT ![c.pixd].data = RGBToHSVData(c.heap[c.pixd])]]

\* What the locals rval, gval, bval may hold before the first pixel: they are
\* not initialised, and convertHSVToRGB's status is not looked at.
UninitRGB == {<<0, 0, 0>>, <<171, 205, 239>>}

\* the pixel loop from pixel p (row-major) on; last is <<rval, gval, bval>>
RECURSIVE HSVToRGBScan(_, _, _, _, _, _)
HSVToRGBScan(pd, p, data, last, ty, tz) ==
    IF p >= pd.w * pd.h THEN data
    ELSE LET at == 4 * pd.wpl * (p \div pd.w) + 4 * (p % pd.w)
             c == convertHSVToRGB(data[at + 1], data[at + 2], data[at + 3], ty, tz)
             rgb == IF c.rc = 0 THEN c.rgb ELSE last
         IN  HSVToRGBScan(pd, p + 1,
                          [data EXCEPT ![at + 1] = rgb[1] % 256,
                                       ![at + 2] = rgb[2] % 256,
                                       ![at + 3] = rgb[3] % 256],
                          rgb, ty, tz)

pixConvertHSVToRGB(hp, pixd, pixs, uninit, ty, tz) ==
    IF pixs = NULL THEN [ret |-> ERROR_PTR(pixd), heap |-> hp]
    ELSE IF pixd # NULL /\ pixd # pixs THEN [ret |-> ERROR_PTR(pixd), heap |-> hp]
    ELSE IF ~hp[pixs].hascmap /\ hp[pixs].d # 32
         THEN [ret |-> ERROR_PTR(pixd), heap |-> hp]
    ELSE LET c == CopyIfNull(hp, pixd, pixs)
         IN  IF c.heap[c.pixd].hascmap
             THEN [ret |-> c.pixd,
                   heap |-> [c.heap EXCEPT ![c.pixd].cmap =
                                pixcmapConvertHSVToRGB(@, ty, tz)]]
             ELSE [ret |-> c.pixd,
                   heap |-> [c.heap EXCEPT ![c.pixd].data =
                                HSVToRGBScan(c.heap[c.pixd], 0, @, uninit, ty, tz)]]

(***************************************************************************)
(* pixconv.c: pixConvert1To2, pixConvert1To4, pixConvert1To8,              *)
(* pixConvert1To16, pixConvert1To32                                        *)
(***************************************************************************)
Bit(v, b) == (v \div Pow2(b)) % 2

\* Bit b of the table entry
\*   (val[(index >> (nf-1)) & 1] << fw*(nf-1)) | ... | (val[(index >> 1) & 1] << fw) | val[index & 1]
\* where val[0] = val0 and val[1] = val1 are vw bits wide.
TabBit(index, val0, val1, nf, fw, vw, b) ==
    IF \E t \in 0..(nf - 1) :
          /\ b >= fw * t
          /\ b - fw * t < vw
          /\ Bit(IF Bit(index, t) = 1 THEN val1 ELSE val0, b - fw * t) = 1
    THEN 1 ELSE 0

\* byte m (0 the most significant) of that entry, kept in nb bytes
TabByte(index, val0, val1, nf, fw, vw, nb, m) ==
    LET S[c \in 0..8] ==
            IF c = 8 THEN 0
            ELSE TabBit(index, val0, val1, nf, fw, vw, 8 * (nb - 1 - m) + c) * Pow2(c)
                 + S[c + 1]
    IN  S[0]

\* per destination depth n: the source unit one table lookup consumes
\*   2, 4: a byte (tab of 256);  8: a qbit (tab of 16);  16: a dibit (tab of 4)
\* fields per entry, the width of val[], and the bytes stored per lookup
ConvFields(n) == CASE n = 2 -> 8 [] n = 4 -> 8 [] n = 8 -> 4 [] n = 16 -> 2
ConvValBits(n) == IF n = 16 THEN 16 ELSE 8
ConvStore(n) == IF n = 2 THEN 2 ELSE 4

\* one table lookup for every pixel of the row
ConvUnitsOfWidth(n, w) == w

\* nbytes = (w + 7) / 8, nqbits = (w + 3) / 4, ndibits = (w + 1) / 2
ConvUnits(n, w) ==
    CASE n = 2 -> (w + 7) \div 8
      [] n = 4 -> (w + 7) \div 8
      [] n = 8 -> (w + 3) \div 4
      [] n = 16 -> (w + 1) \div 2

ConvSrcUnit(n, data, line, j) ==
    CASE n = 2 -> GET_DATA_BYTE(data, line, j)
      [] n = 4 -> GET_DATA_BYTE(data, line, j)
      [] n = 8 -> GET_DATA_QBIT(data, line, j)
      [] n = 16 -> GET_DATA_DIBIT(data, line, j)

\* data with bytes stored from offset at (from 0); a store that does not lie
\* inside the array is beyond the destination's buffer: it is left out and
\* reported in oob
StoreBytes(r, at, bytes) ==
    IF at + Len(bytes) > Len(r.data) THEN [data |-> r.data, oob |-> TRUE]
    ELSE [data |-> [b \in 1..Len(r.data) |->
                       IF b > at /\ b <= at + Len(bytes) THEN bytes[b - at]
                       ELSE r.data[b]],
          oob |-> r.oob]

\* the row loops from lookup p = i * units + j on: [data, oob] of the destination
RECURSIVE ConvScan(_, _, _, _, _, _, _)
ConvScan(n, ps, wpld, val0, val1, p, r) ==
    LET units == ConvUnits(n, ps.w)
    IN  IF p >= ps.h * units THEN r
        ELSE LET i == p \div units
                 j == p % units
                 index == ConvSrcUnit(n, ps.data, 4 * ps.wpl * i, j)
                 nb == ConvStore(n)
                 entry == [m \in 1..nb |->
                              TabByte(index, val0, val1, ConvFields(n), n,
                                      ConvValBits(n), nb, m - 1)]
             IN  ConvScan(n, ps, wpld, val0, val1, p + 1,
                          StoreBytes(r, 4 * wpld * i + nb * j, entry))

\* lined[j] = val[bit] for every pixel; val0 and val1 are four bytes each
RECURSIVE Conv32Scan(_, _, _, _, _, _)
Conv32Scan(ps, wpld, val0, val1, p, r) ==
    IF p >= ps.h * ps.w THEN r
    ELSE LET i == p \div ps.w
             j == p % ps.w
             bit == GET_DATA_BIT(ps.data, 4 * ps.wpl * i, j)
         IN  Conv32Scan(ps, wpld, val0, val1, p + 1,
                        StoreBytes(r, 4 * wpld * i + 4 * j,
                                   IF bit = 1 THEN val1 ELSE val0))

\* Convert1ToN without the test of pixd's depth
Convert1ToNNoDepthCheck(hp, pixd, pixs, val0, val1, n) ==
    LET ps == hp[pixs]
    IN  IF pixd # NULL /\ (ps.w # hp[pixd].w \/ ps.h # hp[pixd].h)
        THEN [ret |-> ERROR_PTR(pixd), heap |-> hp, oob |-> FALSE]
        ELSE LET dst == IF pixd # NULL THEN pixd ELSE NewAddr(hp)
                 hp1 == IF pixd # NULL THEN hp
                        ELSE [hp EXCEPT ![dst] = pixCreate(ps.w, ps.h, n)]
                 r0 == [data |-> hp1[dst].data, oob |-> FALSE]
                 r == IF n = 32
                      THEN Conv32Scan(ps, hp1[dst].wpl, val0, val1, 0, r0)
                      ELSE ConvScan(n, ps, hp1[dst].wpl, val0, val1, 0, r0)
             IN  [ret |-> dst,
                  heap |-> [hp1 EXCEPT ![dst].data = r.data],
                  oob |-> r.oob]

\* The part the five functions share, after pixs has been checked: pixd is
\* checked against pixs or created, then filled.  [ret, heap, oob]
Convert1ToN(hp, pixd, pixs, val0, val1, n) ==
    LET ps == hp[pixs]
    IN  IF pixd # NULL /\ (ps.w # hp[pixd].w \/ ps.h # hp[pixd].h)
        THEN [ret |-> ERROR_PTR(pixd), heap |-> hp, oob |-> FALSE]
        ELSE IF pixd # NULL /\ hp[pixd].d # n
        THEN [ret |-> ERROR_PTR(pixd), heap |-> hp, oob |-> FALSE]
        ELSE LET dst == IF pixd # NULL THEN pixd ELSE NewAddr(hp)
                 hp1 == IF pixd # NULL THEN hp
                        ELSE [hp EXCEPT ![dst] = pixCreate(ps.w, ps.h, n)]
                 r0 == [data |-> hp1[dst].data, oob |-> FALSE]
                 r == IF n = 32
                      THEN Conv32Scan(ps, hp1[dst].wpl, val0, val1, 0, r0)
                      ELSE ConvScan(n, ps, hp1[dst].wpl, val0, val1, 0, r0)
             IN  [ret |-> dst,
                  heap |-> [hp1 EXCEPT ![dst].data = r.data],
                  oob |-> r.oob]

\* val[0] = val0; val[1] = val1 with l_uint8 val[2] and l_int32 arguments
pixConvert1To2(hp, pixd, pixs, val0, val1) ==
    IF pixs = NULL THEN [ret |-> ERROR_PTR(pixd), heap |-> hp, oob |-> FALSE]
    ELSE IF hp[pixs].d # 1 THEN [ret |-> ERROR_PTR(pixd), heap |-> hp, oob |-> FALSE]
    ELSE Convert1ToN(hp, pixd, pixs, val0 % 256, val1 % 256, 2)

pixConvert1To4(hp, pixd, pixs, val0, val1) ==
    IF pixs = NULL THEN [ret |-> ERROR_PTR(pixd), heap |-> hp, oob |-> FALSE]
    ELSE IF hp[pixs].d # 1 THEN [ret |-> ERROR_PTR(pixd), heap |-> hp, oob |-> FALSE]
    ELSE Convert1ToN(hp, pixd, pixs, val0 % 256, val1 % 256, 4)

pixConvert1To8(hp, pixd, pixs, val0, val1) ==
    IF pixs = NULL THEN [ret |-> ERROR_PTR(pixd), heap |-> hp, oob |-> FALSE]
    ELSE IF hp[pixs].d # 1 THEN [ret |-> ERROR_PTR(pixd), heap |-> hp, oob |-> FALSE]
    ELSE Convert1ToN(hp, pixd, pixs, val0, val1, 8)

pixConvert1To16(hp, pixd, pixs, val0, val1) ==
    IF pixs = NULL THEN [ret |-> ERROR_PTR(NULL), heap |-> hp, oob |-> FALSE]
    ELSE IF hp[pixs].d # 1 THEN [ret |-> ERROR_PTR(NULL), heap |-> hp, oob |-> FALSE]
    ELSE Convert1ToN(hp, pixd, pixs, val0, val1, 16)

pixConvert1To32(hp, pixd, pixs, val0, val1) ==
    IF pixs = NULL THEN [ret |-> ERROR_PTR(NULL), heap |-> hp, oob |-> FALSE]
    ELSE IF hp[pixs].d # 1 THEN [ret |-> ERROR_PTR(NULL), heap |-> hp, oob |-> FALSE]
    ELSE Convert1ToN(hp, pixd, pixs, val0, val1, 32)

(***************************************************************************)
(* The state before any call, and what every action leaves alone.          *)
(***************************************************************************)
NoCall == [op |-> "none"]

NoScan == [pc |-> "idle"]

Init ==
    /\ call = NoCall
    /\ heap0 = EmptyHeap
    /\ heap = EmptyHeap
    /\ ret = 0
    /\ na = <<>>
    /\ nerr = 0
    /\ q = NoScan
    /\ out = <<>>

\* the values minval and maxval are drawn from
TRCEnds == ((-MaxOut)..1) \cup {50, 127, 200} \cup (254..(255 + MaxOut))

(***************************************************************************)
(* The calls that build a table.                                           *)
(***************************************************************************)
\* na = numaGammaTRC(gamma, minval, maxval); NULL (here <<>>, ret = 1) on error
CallNumaGammaTRC ==
    /\ call.op = "none"
    /\ \E g2 \in Gammas2, minval \in TRCEnds, maxval \in TRCEnds :
          /\ call' = [op |-> "numaGammaTRC", g2 |-> g2,
                      minval |-> minval, maxval |-> maxval]
          /\ IF minval >= maxval
               THEN na' = <<>> /\ ret' = 1
               ELSE na' = numaGammaTRC(g2, minval, maxval) /\ ret' = 0
    /\ UNCHANGED <<heap0, heap, nerr, q, out>>

\* na = numaContrastTRC(factor)
CallNumaContrastTRC ==
    /\ call.op = "none"
    /\ \E factor \in Factors, nan \in NaNToInt :
          /\ call' = [op |-> "numaContrastTRC", factor |-> factor]
          /\ na' = numaContrastTRC(factor, nan)
          /\ ret' = 0
    /\ UNCHANGED <<heap0, heap, nerr, q, out>>

NextTRC == CallNumaGammaTRC \/ CallNumaContrastTRC

SpecTRC == Init /\ [][NextTRC]_vars

(***************************************************************************)
(* The images the calls are made on.                                       *)
(***************************************************************************)
\* 8 bpp gray; the padding bytes of a row hold 165
Gray8(w, h, seed) ==
    MakePix(w, h, 8, [i \in 0..(h - 1), j \in RowPixels(w, 8) |->
                         IF j < w THEN (seed + 40 * i + 9 * j) % 256 ELSE 165])

\* 32 bpp <<r, g, b, a>>, the fourth byte not zero
RGB32(w, h, seed) ==
    MakePix(w, h, 32, [i \in 0..(h - 1), j \in RowPixels(w, 32) |->
                          << (seed + 40 * i + 9 * j) % 256,
                             (3 * seed + i + 7 * j) % 256,
                             (5 * seed + 11 * i + j) % 256,
                             1 + ((seed + i + j) % 255) >>])

\* d bpp, d <= 16, pixel values running through 0 .. 2^d - 1, padding 0
Gen(w, h, d, seed) ==
    MakePix(w, h, d, [i \in 0..(h - 1), j \in RowPixels(w, d) |->
                         IF j < w THEN (seed + 3 * i + j) % Pow2(d) ELSE 0])

\* 1 bpp with exactly the pixels of bits set, and every padding bit set
Bin1(w, h, bits) ==
    MakePix(w, h, 1, [i \in 0..(h - 1), j \in RowPixels(w, 1) |->
                         IF j >= w \/ <<i, j>> \in bits THEN 1 ELSE 0])

\* the bit patterns of a w x h mask
MaskKinds == {"none", "all", "ends", "odd"}

MaskBits(w, h, kind) ==
    CASE kind = "none" -> {}
      [] kind = "all" -> (0..(h - 1)) \X (0..(w - 1))
      [] kind = "ends" -> {<<0, 0>>, <<h - 1, w - 1>>}
      [] kind = "odd" -> {ij \in (0..(h - 1)) \X (0..(w - 1)) : (ij[1] + ij[2]) % 2 = 1}

\* a colormap with a colour entry, and a 3-entry gray one
ColorCmap == << <<255, 255, 255>>, <<0, 0, 0>>, <<200, 30, 90>>, <<10, 250, 40>> >>

\* sources for the tone and colour-space calls: 8 and 32 bpp, colormapped
\* 2 and 8 bpp, and the depths the calls refuse
EnhSources ==
    { Gray8(1, 1, 77), Gray8(MaxW, MaxH, 200), RGB32(1, 1, 77), RGB32(MaxW, 2, 200),
      WithCmap(Gen(MaxW, 1, 2, 1), ColorCmap), WithCmap(Gen(2, 2, 8, 0), ColorCmap),
      Gen(MaxW, 2, 1, 1), Gen(2, 1, 16, 40000) }

\* the PIX at address 2: not pixs, and with pixs's size only by chance
OtherPix == Gray8(2, 1, 9)

\* minval and maxval of the image calls
PixEnds == {-MaxOut, 0, 255 + MaxOut}

\* the tables handed to pixTRCMap: all zero, inverting, a gamma 2.0 curve,
\* and one of 255 entries
ZeroTab == [k \in 1..256 |-> 0]
MapTables ==
    { ZeroTab, [k \in 1..256 |-> 256 - k], numaGammaTRC(4, 0, 255),
      numaMakeSequence(0, 1, 255) }

\* what a call leaves in the state
Returned(c, hp, r) ==
    /\ call' = c
    /\ heap0' = hp
    /\ heap' = r.heap
    /\ ret' = r.ret

\* the heap of a call on src, with OtherPix and (unless NoPix) a mask
HeapOf(src, mask) == [a \in Addrs |-> CASE a = 1 -> src [] a = 2 -> OtherPix
                                        [] a = 3 -> mask [] OTHER -> NoPix]

(***************************************************************************)
(* The calls on images.                                                    *)
(***************************************************************************)
\* the images and masks of the pixTRCMap calls: 8 and 32 bpp images and
\* masks of every size up to MaxW x MaxH, the masks of every kind
TRCSources ==
    {Gray8(w, h, 77) : w \in 1..MaxW, h \in 1..MaxH}
    \cup {RGB32(w, h, 77) : w \in 1..MaxW, h \in 1..MaxH}

TRCMasks ==
    UNION {{Bin1(wm, hm, MaskBits(wm, hm, kind)) : wm \in 1..MaxW, hm \in 1..MaxH}
           : kind \in MaskKinds}

\* pixTRCMap(pixs, pixm, na) without a mask and with one
CallPixTRCMapValid ==
    /\ call.op = "none"
    /\ \E src \in TRCSources, mask \in TRCMasks \cup {NoPix}, tab \in MapTables :
          LET pixm == IF mask = NoPix THEN NULL ELSE 3
              hp == HeapOf(src, mask)
          IN  /\ Returned([op |-> "pixTRCMap", pixs |-> 1, pixm |-> pixm],
                          hp, pixTRCMap(hp, 1, pixm, tab, TRUE))
              /\ na' = tab
    /\ UNCHANGED <<nerr, q, out>>

\* pixTRCMap with an argument it refuses: no pixs, no na, a colormapped or
\* 16 bpp pixs, an 8 bpp mask
CallPixTRCMapInvalid ==
    /\ call.op = "none"
    /\ \E src \in EnhSources, pixs \in {NULL, 1}, pixm \in {NULL, 2, 3}, hasna \in BOOLEAN :
          /\ LET hp == HeapOf(src, Bin1(2, 2, MaskBits(2, 2, "all")))
             IN  /\ Returned([op |-> "pixTRCMap", pixs |-> pixs, pixm |-> pixm],
                             hp, pixTRCMap(hp, pixs, pixm, ZeroTab, hasna))
                 /\ na' = IF hasna THEN ZeroTab ELSE <<>>
    /\ UNCHANGED <<nerr, q, out>>

CallPixGammaTRC ==
    /\ call.op = "none"
    /\ \E src \in EnhSources, pixs \in {NULL, 1}, pixd \in {NULL, 1, 2},
          g2 \in {0, 2, 4}, minval \in PixEnds, maxval \in PixEnds :
          LET hp == HeapOf(src, NoPix)
          IN  Returned([op |-> "pixGammaTRC", pixd |-> pixd, pixs |-> pixs, pixm |-> NULL,
                        g2 |-> g2, minval |-> minval, maxval |-> maxval],
                       hp, pixGammaTRC(hp, pixd, pixs, g2, minval, maxval))
    /\ UNCHANGED <<na, nerr, q, out>>

CallPixGammaTRCMasked ==
    /\ call.op = "none"
    /\ \E src \in EnhSources, pixs \in {NULL, 1}, pixd \in {NULL, 1, 2}, pixm \in {NULL, 3},
          g2 \in {0, 2, 4}, minval \in PixEnds, maxval \in PixEnds :
          LET hp == HeapOf(src, Bin1(2, 2, MaskBits(2, 2, "ends")))
          IN  Returned([op |-> "pixGammaTRCMasked", pixd |-> pixd, pixs |-> pixs,
                        pixm |-> pixm, g2 |-> g2, minval |-> minval, maxval |-> maxval],
                       hp, pixGammaTRCMasked(hp, pixd, pixs, pixm, g2, minval, maxval))
    /\ UNCHANGED <<na, nerr, q, out>>

CallPixContrastTRC ==
    /\ call.op = "none"
    /\ \E src \in EnhSources, pixs \in {NULL, 1}, pixd \in {NULL, 1, 2},
          factor \in Factors, nan \in NaNToInt :
          LET hp == HeapOf(src, NoPix)
          IN  Returned([op |-> "pixContrastTRC", pixd |-> pixd, pixs |-> pixs,
                        pixm |-> NULL, factor |-> factor],
                       hp, pixContrastTRC(hp, pixd, pixs, factor, nan))
    /\ UNCHANGED <<na, nerr, q, out>>

CallPixContrastTRCMasked ==
    /\ call.op = "none"
    /\ \E src \in EnhSources, pixs \in {NULL, 1}, pixd \in {NULL, 1, 2}, pixm \in {NULL, 3},
          factor \in Factors, nan \in NaNToInt :
          LET hp == HeapOf(src, Bin1(2, 2, MaskBits(2, 2, "ends")))
          IN  Returned([op |-> "pixContrastTRCMasked", pixd |-> pixd, pixs |-> pixs,
                        pixm |-> pixm, factor |-> factor],
                       hp, pixContrastTRCMasked(hp, pixd, pixs, pixm, factor, nan))
    /\ UNCHANGED <<na, nerr, q, out>>

CallPixConvertRGBToHSV ==
    /\ call.op = "none"
    /\ \E src \in EnhSources, pixs \in {NULL, 1}, pixd \in {NULL, 1, 2} :
          LET hp == HeapOf(src, NoPix)
          IN  Returned([op |-> "pixConvertRGBToHSV", pixd |-> pixd, pixs |-> pixs,
                        pixm |-> NULL],
                       hp, pixConvertRGBToHSV(hp, pixd, pixs))
    /\ UNCHANGED <<na, nerr, q, out>>

CallPixConvertHSVToRGB ==
    /\ call.op = "none"
    /\ \E src \in EnhSources, pixs \in {NULL, 1}, pixd \in {NULL, 1, 2},
          uninit \in UninitRGB, ty \in HSVTies, tz \in HSVTies :
          LET hp == HeapOf(src, NoPix)
          IN  Returned([op |-> "pixConvertHSVToRGB", pixd |-> pixd, pixs |-> pixs,
                        pixm |-> NULL],
                       hp, pixConvertHSVToRGB(hp, pixd, pixs, uninit, ty, tz))
    /\ UNCHANGED <<na, nerr, q, out>>

\* the 1 bpp sources of the conversions: widths of one pixel, of MaxW
\* pixels, and past a byte; one and two rows
ConvWidths == {1, MaxW, MaxW + 6}
ConvHeights == {1, 2}

\* the pixd handed to a conversion to depth n from a w x h pixs: none, one
\* that fits (its pixels already set), and one each of the wrong width,
\* height and depth
DestKinds == {"null", "fits", "wide", "tall", "deep"}

DestPix(kind, w, h, n) ==
    CASE kind = "null" -> NoPix
      [] kind = "fits" -> IF n = 32 THEN RGB32(w, h, 5) ELSE Gen(w, h, n, 1)
      [] kind = "wide" -> IF n = 32 THEN RGB32(w + 1, h, 5) ELSE Gen(w + 1, h, n, 1)
      [] kind = "tall" -> IF n = 32 THEN RGB32(w, h + 1, 5) ELSE Gen(w, h + 1, n, 1)
      [] kind = "deep" -> IF n = 8 THEN Gen(w, h, 4, 1) ELSE Gen(w, h, 8, 1)

\* <<val0, val1>> of a conversion to depth n
ConvVals(n) ==
    CASE n = 2 -> {<<0, 3>>, <<2, 0>>, <<3, 2>>}
      [] n = 4 -> {<<0, 15>>, <<9, 0>>, <<15, 9>>}
      [] n = 8 -> {<<0, 255>>, <<100, 0>>, <<255, 100>>}
      [] n = 16 -> {<<0, 65535>>, <<4660, 0>>, <<65535, 4660>>}
      [] n = 32 -> {<< <<0, 0, 0, 0>>, <<255, 255, 255, 255>> >>,
                    << <<18, 52, 86, 120>>, <<0, 0, 0, 0>> >>,
                    << <<255, 255, 255, 255>>, <<18, 52, 86, 120>> >>}

\* the pixs of a conversion: none, a 1 bpp image, or an 8 bpp one
ConvSrcKinds == {"null", "bin", "gray"}

\* the function for destination depth n
ConvertTo(n, hp, pixd, pixs, val0, val1) ==
    CASE n = 2 -> pixConvert1To2(hp, pixd, pixs, val0, val1)
      [] n = 4 -> pixConvert1To4(hp, pixd, pixs, val0, val1)
      [] n = 8 -> pixConvert1To8(hp, pixd, pixs, val0, val1)
      [] n = 16 -> pixConvert1To16(hp, pixd, pixs, val0, val1)
      [] n = 32 -> pixConvert1To32(hp, pixd, pixs, val0, val1)

\* pixConvert1ToN(pixd, pixs, val0, val1), n the destination depth
CallConvert(name, n) ==
    /\ call.op = "none"
    /\ \E w \in ConvWidths, h \in ConvHeights, mk \in {"ends", "odd"},
          sk \in ConvSrcKinds, dk \in DestKinds, vals \in ConvVals(n) :
          LET val0 == vals[1]
              val1 == vals[2]
              src == IF sk = "gray" THEN Gray8(w, h, 77)
                     ELSE Gen(w, h, 1, 0)
              bin == [src EXCEPT !.data = IF sk = "gray" THEN @
                                          ELSE Bin1(w, h, MaskBits(w, h, mk)).data]
              hp == [a \in Addrs |-> CASE a = 1 -> bin
                                       [] a = 2 -> DestPix(dk, w, h, n)
                                       [] OTHER -> NoPix]
              pixs == IF sk = "null" THEN NULL ELSE 1
              pixd == IF dk = "null" THEN NULL ELSE 2
              r == ConvertTo(n, hp, pixd, pixs, val0, val1)
          IN  /\ Returned([op |-> name, pixd |-> pixd, pixs |-> pixs, pixm |-> NULL,
                           n |-> n, val0 |-> val0, val1 |-> val1, oob |-> r.oob],
                          hp, r)
    /\ UNCHANGED <<na, nerr, q, out>>

CallPixConvert1To2 == CallConvert("pixConvert1To2", 2)
CallPixConvert1To4 == CallConvert("pixConvert1To4", 4)
CallPixConvert1To8 == CallConvert("pixConvert1To8", 8)
CallPixConvert1To16 == CallConvert("pixConvert1To16", 16)
CallPixConvert1To32 == CallConvert("pixConvert1To32", 32)

Next ==
    \/ CallPixTRCMapValid
    \/ CallPixTRCMapInvalid
    \/ CallPixGammaTRC
    \/ CallPixGammaTRCMasked
    \/ CallPixContrastTRC
    \/ CallPixContrastTRCMasked
    \/ CallPixConvertRGBToHSV
    \/ CallPixConvertHSVToRGB
    \/ CallPixConvert1To2
    \/ CallPixConvert1To4
    \/ CallPixConvert1To8
    \/ CallPixConvert1To16
    \/ CallPixConvert1To32

Spec == Init /\ [][Next]_vars

(***************************************************************************)
(* pixconv.c: pixConvertRGBToColormap                                      *)
(***************************************************************************)
UNDEF == -1

\* the largest image of the exhaustive family, in pixels
MaxPix == 3

\* the octcube of a colour at a level: the top level bits of r, g and b,
\* interleaved, as rtab[rval] | gtab[gval] | btab[bval] gives it
OctIndex(rval, gval, bval, level) ==
    LET S[k \in 0..level] ==
            IF k = level THEN 0
            ELSE Pow2(3 * (level - 1 - k)) *
                     (4 * Bit(rval, 7 - k) + 2 * Bit(gval, 7 - k) + Bit(bval, 7 - k))
                 + S[k + 1]
    IN  S[0]

\* pixel p (1 the first) of a 32 bpp PIX in row-major order, <<r, g, b, a>>
PixAt(pix, p) == GetPixel(pix, (p - 1) \div pix.w, (p - 1) % pix.w)

\* the octcube of a pixel
OctOf(px, level) == OctIndex(px[1], px[2], px[3], level)

\* the octcubes pixOctcubeHistogram counts a pixel in
OccupiedCubes(pix, level) == {OctOf(PixAt(pix, p), level) : p \in 1..(pix.w * pix.h)}

\* depth by the number of colours
DepthForOffByOne(ncolors) ==
    IF ncolors <= 5 THEN 2 ELSE IF ncolors <= 17 THEN 4 ELSE 8

DepthFor(ncolors) ==
    IF ncolors <= 4 THEN 2 ELSE IF ncolors <= 16 THEN 4 ELSE 8

\* setPixelLow(line, x, depth, val): the low depth bits of val go into pixel
\* x of the row at byte offset line
setPixelLow(data, line, x, depth, val) ==
    LET ppb == 8 \div depth
        at == line + (x \div ppb) + 1
        shift == Pow2(depth * (ppb - 1 - (x % ppb)))
        old == (data[at] \div shift) % Pow2(depth)
    IN  [data EXCEPT ![at] = @ - old * shift + (val % Pow2(depth)) * shift]

\* the body of the pixel loop with "already seen" always counted
ScanStepCountsRepeats(st, ppixel, octindex) ==
    LET oval == st.octarray[octindex]
    IN  IF oval = 0
        THEN [st EXCEPT !.octarray[octindex] = st.cindex,
                        !.colorarray[st.cindex] = ppixel,
                        !.oob = @ \/ st.cindex > st.ncolors,
                        !.emit = st.cindex - 1,
                        !.cindex = @ + 1]
        ELSE [st EXCEPT !.emit = oval - 1,
                        !.nerrors = @ + 1]

\* the body of the pixel loop with the colour of a cube overwritten by
\* every pixel met in it
ScanStepLastWins(st, ppixel, octindex) ==
    LET oval == st.octarray[octindex]
    IN  IF oval = 0
        THEN [st EXCEPT !.octarray[octindex] = st.cindex,
                        !.colorarray[st.cindex] = ppixel,
                        !.oob = @ \/ st.cindex > st.ncolors,
                        !.emit = st.cindex - 1,
                        !.cindex = @ + 1]
        ELSE [st EXCEPT !.emit = oval - 1,
                        !.colorarray[oval] = ppixel,
                        !.nerrors = IF st.colorarray[oval] # ppixel THEN @ + 1 ELSE @]

\* the body of the pixel loop: the locals after it, emit the value handed to
\* setPixelLow; oob records a store past colorarray's ncolors + 1 slots
ScanStep(st, ppixel, octindex) ==
    LET oval == st.octarray[octindex]
    IN  IF oval = 0
        THEN [st EXCEPT !.octarray[octindex] = st.cindex,
                        !.colorarray[st.cindex] = ppixel,
                        !.oob = @ \/ st.cindex > st.ncolors,
                        !.emit = st.cindex - 1,
                        !.cindex = @ + 1]
        ELSE [st EXCEPT !.emit = oval - 1,
                        !.nerrors = IF st.colorarray[oval] # ppixel THEN @ + 1 ELSE @]

\* pixOctreeColorQuant(pixs, 220, 1): an 8 bpp colormapped image of pixs's
\* size; what it holds is not looked at here
pixOctreeColorQuant(pix) == WithCmap(pixCreate(pix.w, pix.h, 8), <<>>)

\* the function up to the pixel loop: [ret, heap, nerr, q], with nerr the
\* caller's nerrors (old where *pnerrors is not written)
QuantStart(hp, pixs, level, haspn, old) ==
    IF pixs = NULL THEN [ret |-> ERROR_PTR(NULL), heap |-> hp, nerr |-> old, q |-> NoScan]
    ELSE IF hp[pixs].d # 32
    THEN [ret |-> ERROR_PTR(NULL), heap |-> hp, nerr |-> old, q |-> NoScan]
    ELSE IF ~haspn THEN [ret |-> ERROR_PTR(NULL), heap |-> hp, nerr |-> old, q |-> NoScan]
    ELSE IF level < 1 \/ level > 6
    THEN [ret |-> ERROR_PTR(NULL), heap |-> hp, nerr |-> old, q |-> NoScan]
    ELSE LET cubes == OccupiedCubes(hp[pixs], level)
             ncolors == Cardinality(cubes)
             depth == DepthFor(ncolors)
             pixd == NewAddr(hp)
         IN  IF ncolors > 256
             THEN [ret |-> pixd,
                   heap |-> [hp EXCEPT ![pixd] = pixOctreeColorQuant(hp[pixs])],
                   nerr |-> UNDEF,
                   q |-> [pc |-> "fallback"]]
             ELSE [ret |-> NULL,
                   heap |-> [hp EXCEPT ![pixd] = pixCreate(hp[pixs].w, hp[pixs].h, depth)],
                   nerr |-> UNDEF,
                   q |-> [pc |-> "scan", pixs |-> pixs, pixd |-> pixd, level |-> level,
                          depth |-> depth, ncolors |-> ncolors, ncubes |-> Pow2(3 * level),
                          p |-> 0, cindex |-> 1, nerrors |-> 0, emit |-> 0, oob |-> FALSE,
                          octarray |-> [c \in cubes |-> 0],
                          colorarray |-> [k \in 0..ncolors |-> <<0, 0, 0, 0>>]]]

\* the colormap made of colorarray[1 .. ncolors]; pixcmapAddColor refuses a
\* colour once 2^depth are in
QuantCmap(st) ==
    [k \in 1..L_MIN(st.ncolors, Pow2(st.depth)) |->
        <<st.colorarray[k][1], st.colorarray[k][2], st.colorarray[k][3]>>]

\* The colours of the small images: a colour, the same with another fourth
\* byte, one differing from it in the low 2 bits only, one differing in bit 2
\* of green (another octcube at level 6 only), and one differing in the top
\* bit of red (another octcube at every level).
Palette ==
    { <<16, 32, 48, 0>>, <<16, 32, 48, 1>>, <<17, 32, 50, 0>>, <<16, 36, 48, 0>>,
      <<200, 32, 48, 0>> }

\* the 32 bpp image w wide whose pixels are, in row-major order, seq
SeqPix(seq, w) ==
    MakePix(w, Len(seq) \div w, 32,
            [i \in 0..(Len(seq) \div w - 1), j \in 0..(w - 1) |-> seq[i * w + j + 1]])

\* every image of up to MaxPix palette pixels, as one row and, for an even
\* count above 2, as two rows
SmallImages ==
    UNION {{SeqPix(seq, n) : seq \in [1..n -> Palette]} : n \in 1..MaxPix}
    \cup UNION {{SeqPix(seq, n \div 2) : seq \in [1..n -> Palette]}
                : n \in {m \in 3..MaxPix : m % 2 = 0}}

\* one row of n pixels in n different octcubes at level 3 and above
Ramp(n) ==
    SeqPix([p \in 1..n |-> <<32 * ((p - 1) % 8), 32 * (((p - 1) \div 8) % 8),
                             32 * ((p - 1) \div 64), 0>>], n)

\* around the counts where the depth changes, at every level ...
RampSizes == {4, 5, 16, 17}

\* ... and around the count where the exact path ends, at level 3
LongRampSizes == {256, 257}

\* <<pixs, level>> of the calls
QuantCalls ==
    ((SmallImages \cup {Ramp(n) : n \in RampSizes}) \X (1..6))
    \cup ({Ramp(n) : n \in LongRampSizes} \X {3})

\* pixConvertRGBToColormap(pixs, level, &nerrors) up to the pixel loop
CallPixConvertRGBToColormap ==
    /\ call.op = "none"
    /\ \E sl \in QuantCalls :
          LET src == sl[1]
              level == sl[2]
              hp == [a \in Addrs |-> IF a = 1 THEN src ELSE NoPix]
              r == QuantStart(hp, 1, level, TRUE, nerr)
          IN  /\ call' = [op |-> "pixConvertRGBToColormap", pixs |-> 1, level |-> level]
              /\ heap0' = hp
              /\ heap' = r.heap
              /\ ret' = r.ret
              /\ nerr' = r.nerr
              /\ q' = r.q
    /\ UNCHANGED <<na, out>>

\* what the caller's nerrors may hold before the call
CallerNerrors == {0, 7, UNDEF}

\* the same with an argument it refuses: no pixs, an 8 bpp pixs, no
\* &nerrors, a level outside 1 .. 6
CallPixConvertRGBToColormapInvalid ==
    /\ call.op = "none"
    /\ \E src \in {Gray8(2, 1, 77), Ramp(4)}, pixs \in {NULL, 1}, level \in {0, 1, 6, 7},
          haspn \in BOOLEAN, old \in CallerNerrors :
          /\ pixs = NULL \/ src.d # 32 \/ ~haspn \/ level < 1 \/ level > 6
          /\ LET hp == [a \in Addrs |-> IF a = 1 THEN src ELSE NoPix]
                 r == QuantStart(hp, pixs, level, haspn, old)
             IN  /\ call' = [op |-> "pixConvertRGBToColormap", pixs |-> pixs,
                             level |-> level, haspn |-> haspn, old |-> old]
                 /\ heap0' = hp
                 /\ heap' = r.heap
                 /\ ret' = r.ret
                 /\ nerr' = r.nerr
                 /\ q' = r.q
    /\ UNCHANGED <<na, out>>

\* one turn of the pixel loop, at pixel q.p in row-major order
ScanPixel ==
    /\ q.pc = "scan"
    /\ q.p < heap[q.pixs].w * heap[q.pixs].h
    /\ LET ps == heap[q.pixs]
           i == q.p \div ps.w
           j == q.p % ps.w
           ppixel == GetPixel(ps, i, j)
           octindex == OctIndex(ppixel[1], ppixel[2], ppixel[3], q.level)
           st == ScanStep(q, ppixel, octindex)
       IN  /\ q' = [st EXCEPT !.p = @ + 1, !.oob = @ \/ octindex >= q.ncubes]
           /\ heap' = [heap EXCEPT ![q.pixd].data =
                          setPixelLow(@, 4 * heap[q.pixd].wpl * i, j, q.depth, st.emit)]
    /\ UNCHANGED <<call, heap0, ret, na, nerr, out>>

\* after the loop: *pnerrors = nerrors, the colormap is made and set, and
\* pixd returned
FinishScan ==
    /\ q.pc = "scan"
    /\ q.p = heap[q.pixs].w * heap[q.pixs].h
    /\ nerr' = q.nerrors
    /\ heap' = [heap EXCEPT ![q.pixd] = WithCmap(@, QuantCmap(q))]
    /\ ret' = q.pixd
    /\ q' = [q EXCEPT !.pc = "done"]
    /\ UNCHANGED <<call, heap0, na, out>>

NextQuant ==
    \/ CallPixConvertRGBToColormap
    \/ CallPixConvertRGBToColormapInvalid
    \/ ScanPixel
    \/ FinishScan

SpecQuant == Init /\ [][NextQuant]_vars

(***************************************************************************)
(* The calls of convertRGBToHSV and convertHSVToRGB on single colours.     *)
(***************************************************************************)
\* every colour with a component 255 and a component 0
SaturatedColours ==
    UNION {{<<255, m, 0>>, <<255, 0, m>>, <<m, 255, 0>>, <<0, 255, m>>,
            <<m, 0, 255>>, <<0, m, 255>>} : m \in 0..255}

GrayColours == {<<v, v, v>> : v \in 0..255}

\* some colours that are neither
OtherColours == {0, 1, 80, 128, 254} \X {0, 1, 80, 128, 254} \X {0, 1, 80, 128, 254}

HSVColours == SaturatedColours \cup GrayColours \cup OtherColours

\* the hval, sval and vval handed to convertHSVToRGB directly
HueArgs == {-1, 0, 1, 39, 40, 100, 200, 239, 240, 241}
SatArgs == {0, 1, 128, 255}
ValArgs == {0, 1, 128, 255}

\* convertRGBToHSV(rval, gval, bval, &hval, &sval, &vval); given says the
\* three pointers are not NULL
CallConvertRGBToHSV ==
    /\ call.op = "none"
    /\ \E rgb \in HSVColours, given \in BOOLEAN :
          /\ call' = [op |-> "convertRGBToHSV", rgb |-> rgb, given |-> given]
          /\ ret' = IF given THEN 0 ELSE 1
          /\ out' = IF given THEN convertRGBToHSV(rgb[1], rgb[2], rgb[3]) ELSE out
    /\ UNCHANGED <<heap0, heap, na, nerr, q>>

\* convertHSVToRGB(hval, sval, vval, &rval, &gval, &bval) on arguments of the
\* caller's choice; old is what rval, gval, bval held
CallConvertHSVToRGB ==
    /\ call.op = "none"
    /\ \E hval \in HueArgs, sval \in SatArgs, vval \in ValArgs, old \in UninitRGB,
          ty \in HSVTies, tz \in HSVTies :
          LET c == convertHSVToRGB(hval, sval, vval, ty, tz)
          IN  /\ call' = [op |-> "convertHSVToRGB", hsv |-> <<hval, sval, vval>>,
                          rgb |-> <<>>]
              /\ ret' = c.rc
              /\ out' = IF c.rc = 0 THEN c.rgb ELSE old
    /\ UNCHANGED <<heap0, heap, na, nerr, q>>

\* convertHSVToRGB on what convertRGBToHSV has just stored; the call keeps
\* the rgb that went in first
CallConvertBack ==
    /\ call.op = "convertRGBToHSV"
    /\ ret = 0
    /\ \E ty \in HSVTies, tz \in HSVTies :
          LET c == convertHSVToRGB(out[1], out[2], out[3], ty, tz)
          IN  /\ call' = [op |-> "convertHSVToRGB", hsv |-> out, rgb |-> call.rgb]
              /\ ret' = c.rc
              /\ out' = IF c.rc = 0 THEN c.rgb ELSE call.rgb
    /\ UNCHANGED <<heap0, heap, na, nerr, q>>

NextHSV == CallConvertRGBToHSV \/ CallConvertHSVToRGB \/ CallConvertBack

SpecHSV == Init /\ [][NextHSV]_vars

(***************************************************************************)
(* pixconv.c: pixConvertGrayToColormap and pixConvertGrayToColormap8       *)
(***************************************************************************)
\* pixGrayHistogram(pixs) for 8 bpp: 256 numbers, number v + 1 the count of
\* the pixels of value v (the loop of pixConvertGrayToColormap8 reads all of
\* numbers 0 .. 255 and skips the zero ones)
pixGrayHistogram(pix) ==
    [k \in 1..256 |->
        Cardinality({p \in 1..(pix.w * pix.h) : PixAt(pix, p) = k - 1})] \o <<>>

\* numaGetCount(na): how many numbers the array holds
numaGetCount(numa) == Len(numa)

\* the depth of pixd taken to be mindepth whatever ncolors is
GrayDepthOfMinDepth(mindepth, ncolors) == mindepth

\* the depth of pixd
GrayDepth(mindepth, ncolors) ==
    IF mindepth = 8 \/ ncolors > 16 THEN 8
    ELSE IF mindepth = 4 \/ ncolors > 4 THEN 4
    ELSE 2

\* the gray values with a count
GrayLevels(numa) == {i \in 0..255 : numa[i + 1] > 0}

\* array[i] after the loop over the histogram, for an i with a count
GrayIndex(levels, i) == Cardinality({l \in levels : l < i})

\* the colormap after the loop: (i, i, i) for every level in increasing
\* order; pixcmapAddColor refuses a colour once 2^depth are in
GrayCmap(levels, depth) ==
    [k \in 1..L_MIN(Cardinality(levels), Pow2(depth)) |->
        LET i == CHOOSE l \in levels : GrayIndex(levels, l) = k - 1
        IN  <<i, i, i>>]

\* pixd's data after SET_DATA_BYTE(lined, j, array[val]) for every pixel in
\* row-major order, lined being wpld words into the data for every row: a
\* byte holds what the last store to it left, and 0 without one
GrayToCmapData(ps, wpld, levels) ==
    [b \in 1..(4 * wpld * ps.h) |->
        LET rows == {i \in 0..(ps.h - 1) : (b - 1 - 4 * wpld * i) \in 0..(ps.w - 1)}
        IN  IF rows = {} THEN 0
            ELSE LET i == CHOOSE r \in rows : \A r2 \in rows : r2 <= r
                 IN  GrayIndex(levels,
                               GET_DATA_BYTE(ps.data, 4 * ps.wpl * i,
                                             b - 1 - 4 * wpld * i))]

\* pixConvertGrayToColormap8 from the histogram on: [pix, oob], oob saying
\* that a byte was stored past the end of pixd's data
GrayToColormap8(ps, mindepth) ==
    LET numa == pixGrayHistogram(ps)
        ncolors == numaGetCount(numa)
        depth == GrayDepth(mindepth, ncolors)
        levels == GrayLevels(numa)
        wpld == Wpl(ps.w, depth)
    IN  [pix |-> [WithCmap(pixCreate(ps.w, ps.h, depth), GrayCmap(levels, depth))
                    EXCEPT !.data = GrayToCmapData(ps, wpld, levels) \o <<>>],
         oob |-> ps.w > 4 * wpld]

\* pixCopy(NULL, pixs): [ret, heap, oob]
pixCopyNew(hp, pixs) ==
    [ret |-> NewAddr(hp), heap |-> [hp EXCEPT ![NewAddr(hp)] = hp[pixs]],
     oob |-> FALSE]

\* [ret, heap, oob]
pixConvertGrayToColormap8(hp, pixs, mindepthin) ==
    IF pixs = NULL THEN [ret |-> ERROR_PTR(NULL), heap |-> hp, oob |-> FALSE]
    ELSE IF hp[pixs].d # 8 THEN [ret |-> ERROR_PTR(NULL), heap |-> hp, oob |-> FALSE]
    ELSE LET mindepth == IF mindepthin # 2 /\ mindepthin # 4 /\ mindepthin # 8
                         THEN 8 ELSE mindepthin
         IN  IF hp[pixs].hascmap THEN pixCopyNew(hp, pixs)
             ELSE LET r == GrayToColormap8(hp[pixs], mindepth)
                  IN  [ret |-> NewAddr(hp),
                       heap |-> [hp EXCEPT ![NewAddr(hp)] = r.pix],
                       oob |-> r.oob]

\* the 8 bpp pixt of pixConvertGrayToColormap: 255 * val2 / 3 or
\* 255 * val4 / 15 for every pixel, 0 in the padding
GrayExpand(ps) ==
    LET wplt == Wpl(ps.w, 8)
    IN  [pixCreate(ps.w, ps.h, 8) EXCEPT !.data =
            [b \in 1..(4 * wplt * ps.h) |->
                LET i == (b - 1) \div (4 * wplt)
                    j == (b - 1) % (4 * wplt)
                IN  IF j >= ps.w THEN 0
                    ELSE IF ps.d = 2
                    THEN (255 * GET_DATA_DIBIT(ps.data, 4 * ps.wpl * i, j)) \div 3
                    ELSE (255 * GET_DATA_QBIT(ps.data, 4 * ps.wpl * i, j)) \div 15]
            \o <<>>]

\* [ret, heap, oob]; pixt lives at the first free address until it is
\* destroyed
pixConvertGrayToColormap(hp, pixs) ==
    IF pixs = NULL THEN [ret |-> ERROR_PTR(NULL), heap |-> hp, oob |-> FALSE]
    ELSE IF hp[pixs].d # 2 /\ hp[pixs].d # 4 /\ hp[pixs].d # 8
    THEN [ret |-> ERROR_PTR(NULL), heap |-> hp, oob |-> FALSE]
    ELSE IF hp[pixs].hascmap THEN pixCopyNew(hp, pixs)
    ELSE IF hp[pixs].d = 8 THEN pixConvertGrayToColormap8(hp, pixs, 2)
    ELSE LET pixt == NewAddr(hp)
             r == pixConvertGrayToColormap8([hp EXCEPT ![pixt] = GrayExpand(hp[pixs])],
                                            pixt, hp[pixs].d)
         IN  [ret |-> r.ret, heap |-> [r.heap EXCEPT ![pixt] = NoPix], oob |-> r.oob]

\* how many different gray values the 8 bpp sources have
LevelCounts == {1, 2, 4, 5, 16, 17}

\* 8 bpp with exactly n gray values base, base + step, ..., met in rising
\* order or (rev) in falling order along the rows; padding 165
LevelsPix(w, h, n, base, step, rev) ==
    MakePix(w, h, 8, [i \in 0..(h - 1), j \in RowPixels(w, 8) |->
                         IF j >= w THEN 165
                         ELSE LET t == (i * w + j) % n
                              IN  base + step * (IF rev THEN n - 1 - t ELSE t)])

\* 8 bpp sources of 24 and more pixels with every count of LevelCounts, and
\* of 1 and of MaxW pixels
GraySources ==
    UNION {{LevelsPix(MaxW + 2, MaxH, n, bs[1], bs[2], rev)
              : bs \in {<<0, 1>>, <<3, 15>>}, rev \in BOOLEAN} : n \in LevelCounts}
    \cup {LevelsPix(1, 1, 1, 200, 1, FALSE), LevelsPix(MaxW, 1, 2, 7, 240, TRUE),
          LevelsPix(MaxW, 1, MaxW, 0, 60, TRUE)}

\* what pixConvertGrayToColormap8 copies or refuses
GrayOddSources ==
    { WithCmap(Gen(2, 2, 8, 0), ColorCmap), Gen(MaxW, 2, 4, 1), RGB32(1, 1, 77) }

MinDepths == {2, 3, 4, 8}

\* pixConvertGrayToColormap8(pixs, mindepth)
CallPixConvertGrayToColormap8 ==
    /\ call.op = "none"
    /\ \E src \in GraySources \cup GrayOddSources, pixs \in {NULL, 1},
          mindepth \in MinDepths :
          LET hp == HeapOf(src, NoPix)
              r == pixConvertGrayToColormap8(hp, pixs, mindepth)
          IN  Returned([op |-> "pixConvertGrayToColormap8", pixs |-> pixs,
                        mindepth |-> mindepth, oob |-> r.oob], hp, r)
    /\ UNCHANGED <<na, nerr, q, out>>

\* the sources of pixConvertGrayToColormap: 2 and 4 bpp with one, some and
\* all of the values, 8 bpp, colormapped, and the depths it refuses
GrayAnySources ==
    UNION {{Gen(w, h, 2, seed), Gen(w, h, 4, seed)}
              : w \in {1, 2, MaxW + 2}, h \in {1, MaxH}, seed \in {0, 1}}
    \cup {LevelsPix(MaxW, 1, 2, 7, 240, TRUE), LevelsPix(MaxW + 2, MaxH, 17, 0, 1, FALSE),
          WithCmap(Gen(MaxW, 1, 2, 1), ColorCmap), Gen(MaxW, 2, 1, 1), RGB32(1, 1, 77)}

\* pixConvertGrayToColormap(pixs)
CallPixConvertGrayToColormap ==
    /\ call.op = "none"
    /\ \E src \in GrayAnySources, pixs \in {NULL, 1} :
          LET hp == HeapOf(src, NoPix)
              r == pixConvertGrayToColormap(hp, pixs)
          IN  Returned([op |-> "pixConvertGrayToColormap", pixs |-> pixs,
                        mindepth |-> 0, oob |-> r.oob], hp, r)
    /\ UNCHANGED <<na, nerr, q, out>>

(***************************************************************************)
(* pixconv.c: pixRemoveColormap                                            *)
(***************************************************************************)
REMOVE_CMAP_TO_BINARY == "REMOVE_CMAP_TO_BINARY"
REMOVE_CMAP_TO_GRAYSCALE == "REMOVE_CMAP_TO_GRAYSCALE"
REMOVE_CMAP_TO_FULL_COLOR == "REMOVE_CMAP_TO_FULL_COLOR"
REMOVE_CMAP_BASED_ON_SRC == "REMOVE_CMAP_BASED_ON_SRC"

\* the type arguments: the four values and one that is none of them
RemoveTypes ==
    { REMOVE_CMAP_TO_BINARY, REMOVE_CMAP_TO_GRAYSCALE, REMOVE_CMAP_TO_FULL_COLOR,
      REMOVE_CMAP_BASED_ON_SRC, "other" }

\* pixcmapHasColor: some entry is not gray
pixcmapHasColor(cmap) ==
    \E k \in 1..Len(cmap) : cmap[k][1] # cmap[k][2] \/ cmap[k][1] # cmap[k][3]

\* the type with REMOVE_CMAP_TO_BINARY kept for every depth
RemoveTypeKeepsBinary(typein, d, cmap) ==
    LET t1 == IF typein \notin { REMOVE_CMAP_TO_BINARY, REMOVE_CMAP_TO_GRAYSCALE,
                                 REMOVE_CMAP_TO_FULL_COLOR, REMOVE_CMAP_BASED_ON_SRC }
              THEN REMOVE_CMAP_BASED_ON_SRC ELSE typein
    IN  IF t1 = REMOVE_CMAP_BASED_ON_SRC
        THEN IF ~pixcmapHasColor(cmap)
             THEN (IF d = 1 THEN REMOVE_CMAP_TO_BINARY ELSE REMOVE_CMAP_TO_GRAYSCALE)
             ELSE REMOVE_CMAP_TO_FULL_COLOR
        ELSE t1

\* the type the conversion is made with
RemoveType(typein, d, cmap) ==
    LET t1 == IF typein \notin { REMOVE_CMAP_TO_BINARY, REMOVE_CMAP_TO_GRAYSCALE,
                                 REMOVE_CMAP_TO_FULL_COLOR, REMOVE_CMAP_BASED_ON_SRC }
              THEN REMOVE_CMAP_BASED_ON_SRC ELSE typein
        t2 == IF d # 1 /\ t1 = REMOVE_CMAP_TO_BINARY
              THEN REMOVE_CMAP_BASED_ON_SRC ELSE t1
    IN  IF t2 = REMOVE_CMAP_BASED_ON_SRC
        THEN IF ~pixcmapHasColor(cmap)
             THEN (IF d = 1 THEN REMOVE_CMAP_TO_BINARY ELSE REMOVE_CMAP_TO_GRAYSCALE)
             ELSE REMOVE_CMAP_TO_FULL_COLOR
        ELSE t2

\* what a read of an int that was never written can give
UninitInts == {0, 171}

\* rmap[sval], gmap[sval], bmap[sval] for c = 1, 2, 3 after pixcmapToArrays;
\* the arrays have an element for every entry, and a read past them gives
\* what happens to be there
CmapArray(cmap, c, sval, uninit) ==
    IF sval < Len(cmap) THEN cmap[sval + 1][c] ELSE uninit

\* pixInvert(pixd, pixd): every pixel of the w x h image flipped, the
\* padding of the rows left
pixInvert(pix) ==
    [pix EXCEPT !.data =
        [b \in 1..Len(pix.data) |->
            LET k == (b - 1) % (4 * pix.wpl)
                S[t \in 0..8] ==
                    IF t = 8 THEN 0
                    ELSE LET bit == (pix.data[b] \div Pow2(7 - t)) % 2
                         IN  (IF 8 * k + t < pix.w THEN 1 - bit ELSE bit) * Pow2(7 - t)
                             + S[t + 1]
            IN  S[0]] \o <<>>]

\* the copy of pixs without its colormap, inverted when the red of entry 0
\* is 0; pixcmapGetColor leaves rval alone when there is no entry 0
RemoveToBinary(ps, uninit) ==
    LET rval == IF Len(ps.cmap) > 0 THEN ps.cmap[1][1] ELSE uninit
        pixd == IF rval = 0 THEN pixInvert(ps) ELSE ps
    IN  [pixd EXCEPT !.hascmap = FALSE, !.cmap = <<>>]

\* the 8 bpp image of (rmap[sval] + 2 * gmap[sval] + bmap[sval]) / 4
RemoveToGray(ps, uninit) ==
    LET wpld == Wpl(ps.w, 8)
    IN  [pixCreate(ps.w, ps.h, 8) EXCEPT !.data =
            [b \in 1..(4 * wpld * ps.h) |->
                LET i == (b - 1) \div (4 * wpld)
                    j == (b - 1) % (4 * wpld)
                    sval == GetPixel(ps, i, j)
                IN  IF j >= ps.w THEN 0
                    ELSE (CmapArray(ps.cmap, 1, sval, uninit)
                          + 2 * CmapArray(ps.cmap, 2, sval, uninit)
                          + CmapArray(ps.cmap, 3, sval, uninit)) \div 4] \o <<>>]

\* the 32 bpp image of rmap[sval], gmap[sval], bmap[sval]; the fourth byte
\* stays 0
RemoveToColor(ps, uninit) ==
    [pixCreate(ps.w, ps.h, 32) EXCEPT !.data =
        [b \in 1..(4 * ps.w * ps.h) |->
            LET i == (b - 1) \div (4 * ps.w)
                j == ((b - 1) % (4 * ps.w)) \div 4
                c == ((b - 1) % 4) + 1
            IN  IF c = 4 THEN 0
                ELSE CmapArray(ps.cmap, c, GetPixel(ps, i, j), uninit)] \o <<>>]

\* [ret, heap, oob]; oob says that rmap, gmap, bmap were read past their end
pixRemoveColormap(hp, pixs, typein, uninit) ==
    IF pixs = NULL THEN [ret |-> ERROR_PTR(NULL), heap |-> hp, oob |-> FALSE]
    ELSE IF ~hp[pixs].hascmap THEN [ret |-> pixClone(pixs), heap |-> hp, oob |-> FALSE]
    ELSE IF hp[pixs].d \notin {1, 2, 4, 8}
    THEN [ret |-> ERROR_PTR(NULL), heap |-> hp, oob |-> FALSE]
    ELSE LET ps == hp[pixs]
             type == RemoveType(typein, ps.d, ps.cmap)
             pixd == CASE type = REMOVE_CMAP_TO_BINARY -> RemoveToBinary(ps, uninit)
                       [] type = REMOVE_CMAP_TO_GRAYSCALE -> RemoveToGray(ps, uninit)
                       [] OTHER -> RemoveToColor(ps, uninit)
         IN  [ret |-> NewAddr(hp),
              heap |-> [hp EXCEPT ![NewAddr(hp)] = pixd],
              oob |-> /\ type # REMOVE_CMAP_TO_BINARY
                      /\ \E p \in 1..(ps.w * ps.h) : PixAt(ps, p) >= Len(ps.cmap)]

\* d bpp, the pixels running through 0 .. n - 1, every padding bit set
IndexPix(w, h, d, n, seed) ==
    MakePix(w, h, d, [i \in 0..(h - 1), j \in RowPixels(w, d) |->
                         IF j < w THEN (seed + 3 * i + j) % n ELSE Pow2(d) - 1])

\* colormaps of gray entries only: white and black both ways, two blacks,
\* a mid gray and white, and the n grays 0, 17, ...
WhiteBlack == << <<255, 255, 255>>, <<0, 0, 0>> >>
BlackWhite == << <<0, 0, 0>>, <<255, 255, 255>> >>
GrayRamp(n) == [k \in 1..n |-> <<17 * (k - 1), 17 * (k - 1), 17 * (k - 1)>>]
GrayCmaps(d) ==
    IF d = 1
    THEN { WhiteBlack, BlackWhite, << <<0, 0, 0>>, <<0, 0, 0>> >>,
           << <<128, 128, 128>>, <<255, 255, 255>> >>, << <<0, 0, 0>> >> }
    ELSE { GrayRamp(3), GrayRamp(L_MIN(Pow2(d), 16)) }

\* colormaps with an entry that is not gray: in blue only, in every
\* component, and (for 1 bpp) with a first entry without red
ColorCmaps(d) ==
    IF d = 1
    THEN { << <<0, 255, 255>>, <<0, 0, 0>> >>, << <<255, 255, 255>>, <<0, 0, 200>> >>,
           << <<0, 0, 1>>, <<255, 255, 255>> >> }
    ELSE { << <<0, 0, 0>>, <<5, 5, 6>>, <<255, 255, 255>> >>, ColorCmap }

\* the colormapped sources: every depth of 1, 2, 4, 8 with every colormap
\* for it, every index in the colormap
CmapSources ==
    UNION {{WithCmap(IndexPix(sz[1], sz[2], d, Len(cm), seed), cm)
              : sz \in {<<1, 1>>, <<MaxW + 6, 2>>}, seed \in {0, 1},
                cm \in GrayCmaps(d) \cup ColorCmaps(d)} : d \in {1, 2, 4, 8}}

\* sources without a colormap, and a colormapped one of 16 bpp
RemoveOddSources ==
    { Gen(MaxW, 2, 1, 1), Gray8(2, 2, 77), RGB32(1, 1, 77),
      WithCmap(Gen(2, 1, 16, 0), WhiteBlack) }

\* pixRemoveColormap(pixs, type)
CallPixRemoveColormap ==
    /\ call.op = "none"
    /\ \E src \in CmapSources \cup RemoveOddSources, pixs \in {NULL, 1},
          type \in RemoveTypes, uninit \in UninitInts :
          LET hp == HeapOf(src, NoPix)
              r == pixRemoveColormap(hp, pixs, type, uninit)
          IN  Returned([op |-> "pixRemoveColormap", pixs |-> pixs, type |-> type,
                        oob |-> r.oob], hp, r)
    /\ UNCHANGED <<na, nerr, q, out>>

(***************************************************************************)
(* pixconv.c: pixConvert8To32, pixConvertRGBToGray, pixConvertRGBToLuminance*)
(***************************************************************************)
\* the table with val in the three low bytes of the word
Tab8To32LowBytes(val) == <<0, val, val, val>>

\* tab[val] = (val << 24) | (val << 16) | (val << 8), as the four bytes of
\* the word
Tab8To32(val) == <<val, val, val, 0>>

\* [ret, heap, oob]
pixConvert8To32(hp, pixs, uninit) ==
    IF pixs = NULL THEN [ret |-> ERROR_PTR(NULL), heap |-> hp, oob |-> FALSE]
    ELSE IF hp[pixs].d # 8 THEN [ret |-> ERROR_PTR(NULL), heap |-> hp, oob |-> FALSE]
    ELSE IF hp[pixs].hascmap
    THEN pixRemoveColormap(hp, pixs, REMOVE_CMAP_TO_FULL_COLOR, uninit)
    ELSE LET ps == hp[pixs]
             pixd == [pixCreate(ps.w, ps.h, 32) EXCEPT !.data =
                         [b \in 1..(4 * ps.w * ps.h) |->
                             LET i == (b - 1) \div (4 * ps.w)
                                 j == ((b - 1) % (4 * ps.w)) \div 4
                             IN  Tab8To32(GET_DATA_BYTE(ps.data, 4 * ps.wpl * i, j))
                                         [((b - 1) % 4) + 1]]
                         \o <<>>]
         IN  [ret |-> NewAddr(hp), heap |-> [hp EXCEPT ![NewAddr(hp)] = pixd],
              oob |-> FALSE]

\* the weights, in tenths
L_RED_WEIGHT == 3
L_GREEN_WEIGHT == 5
L_BLUE_WEIGHT == 2

\* what (l_int32)(x + 0.5) gives when x + 0.5 is a whole number in exact
\* arithmetic and x is computed in floating point: that number, or one less
GrayTies == {0, 1}

\* graybyte = (l_uint8)(rwt * redbyte + gwt * greenbyte + bwt * bluebyte + 0.5)
\* for weights of rwt, gwt, bwt tenths that add to 1.0
GrayByte(rwt, gwt, bwt, redbyte, greenbyte, bluebyte, tie) ==
    LET n == rwt * redbyte + gwt * greenbyte + bwt * bluebyte
    IN  IF n % 10 = 5 THEN (n + 5) \div 10 - tie ELSE (n + 5) \div 10

\* [ret, heap, oob], the weights in tenths
pixConvertRGBToGray(hp, pixs, rwtin, gwtin, bwtin, tie) ==
    IF pixs = NULL THEN [ret |-> ERROR_PTR(NULL), heap |-> hp, oob |-> FALSE]
    ELSE IF hp[pixs].d # 32 THEN [ret |-> ERROR_PTR(NULL), heap |-> hp, oob |-> FALSE]
    ELSE LET dflt == rwtin = 0 /\ gwtin = 0 /\ bwtin = 0
             rwt == IF dflt THEN L_RED_WEIGHT ELSE rwtin
             gwt == IF dflt THEN L_GREEN_WEIGHT ELSE gwtin
             bwt == IF dflt THEN L_BLUE_WEIGHT ELSE bwtin
             ps == hp[pixs]
             wpld == Wpl(ps.w, 8)
         IN  IF rwt + gwt + bwt # 10
             THEN [ret |-> ERROR_PTR(NULL), heap |-> hp, oob |-> FALSE]
             ELSE [ret |-> NewAddr(hp),
                   heap |-> [hp EXCEPT ![NewAddr(hp)] =
                       [pixCreate(ps.w, ps.h, 8) EXCEPT !.data =
                           [b \in 1..(4 * wpld * ps.h) |->
                               LET i == (b - 1) \div (4 * wpld)
                                   j == (b - 1) % (4 * wpld)
                               IN  IF j >= ps.w THEN 0
                                   ELSE LET px == GetPixel(ps, i, j)
                                        IN  GrayByte(rwt, gwt, bwt, px[1], px[2], px[3],
                                                     tie)] \o <<>>]],
                   oob |-> FALSE]

pixConvertRGBToLuminance(hp, pixs, tie) == pixConvertRGBToGray(hp, pixs, 0, 0, 0, tie)

\* the 8 bpp sources without colormap: every size up to MaxW x MaxH and a
\* width past a word, the pixels running through 0 .. 255 by the seeds
Gray8Sources ==
    UNION {{Gray8(w, h, seed) : w \in (1..MaxW) \cup {MaxW + 6}, h \in 1..MaxH}
              : seed \in {0, 77, 200, 255}}

\* pixConvert8To32(pixs)
CallPixConvert8To32 ==
    /\ call.op = "none"
    /\ \E src \in Gray8Sources \cup {WithCmap(IndexPix(MaxW, 2, 8, 4, 0), ColorCmap),
                                     Gen(MaxW, 2, 4, 1)},
          pixs \in {NULL, 1}, uninit \in UninitInts :
          LET hp == HeapOf(src, NoPix)
              r == pixConvert8To32(hp, pixs, uninit)
          IN  Returned([op |-> "pixConvert8To32", pixs |-> pixs, oob |-> r.oob], hp, r)
    /\ UNCHANGED <<na, nerr, q, out>>

\* the weights of the calls, in tenths: the default, red only, green and
\* blue, and two that do not add to 1.0
GrayWeights == {<<0, 0, 0>>, <<10, 0, 0>>, <<0, 5, 5>>, <<3, 3, 3>>, <<5, 5, 5>>}

\* the 32 bpp sources of the calls made on their own
RGBSources == {RGB32(1, 1, 77), RGB32(MaxW, 2, 200), RGB32(MaxW + 6, 1, 9)}

\* pixConvertRGBToGray(pixs, rwt, gwt, bwt)
CallPixConvertRGBToGray ==
    /\ call.op = "none"
    /\ \E src \in RGBSources \cup {Gray8(2, 2, 77)}, pixs \in {NULL, 1},
          wts \in GrayWeights, tie \in GrayTies :
          LET hp == HeapOf(src, NoPix)
              r == pixConvertRGBToGray(hp, pixs, wts[1], wts[2], wts[3], tie)
          IN  Returned([op |-> "pixConvertRGBToGray", pixs |-> pixs, wts |-> wts,
                        oob |-> r.oob], hp, r)
    /\ UNCHANGED <<na, nerr, q, out>>

\* pixConvertRGBToLuminance(pixs) on an image of the caller's
CallPixConvertRGBToLuminance ==
    /\ call.op = "none"
    /\ \E src \in RGBSources \cup {Gray8(2, 2, 77)}, pixs \in {NULL, 1},
          tie \in GrayTies :
          LET hp == HeapOf(src, NoPix)
              r == pixConvertRGBToLuminance(hp, pixs, tie)
          IN  Returned([op |-> "pixConvertRGBToLuminance", pixs |-> pixs,
                        from |-> NULL, oob |-> r.oob], hp, r)
    /\ UNCHANGED <<na, nerr, q, out>>

\* pixConvertRGBToLuminance on what pixConvert8To32 has just returned; from
\* is the pixs of that call and pixs its result; heap0 stays the heap from
\* before the two calls
CallLuminanceOf8To32 ==
    /\ call.op = "pixConvert8To32"
    /\ ret # NULL
    /\ \E tie \in GrayTies :
          LET r == pixConvertRGBToLuminance(heap, ret, tie)
          IN  Returned([op |-> "pixConvertRGBToLuminance", pixs |-> ret,
                        from |-> call.pixs, oob |-> r.oob], heap0, r)
    /\ UNCHANGED <<na, nerr, q, out>>

NextCmap ==
    \/ CallPixConvertGrayToColormap8
    \/ CallPixConvertGrayToColormap
    \/ CallPixRemoveColormap
    \/ CallPixConvert8To32
    \/ CallPixConvertRGBToGray
    \/ CallPixConvertRGBToLuminance
    \/ CallLuminanceOf8To32

SpecCmap == Init /\ [][NextCmap]_vars

(***************************************************************************)
(* pixconv.c: pixThreshold8, pixConvertTo8, pixConvert2To8, pixConvert4To8,*)
(* pixConvert16To8, pixConvertForPSWrap, pixConvert1To2Cmap and            *)
(* pixConvert1To4Cmap                                                      *)
(***************************************************************************)
FALSE_ == 0
TRUE_ == 1

\* pixThresholdToBinary(pixs, thresh): 1 bpp, a bit 1 where the 8 bpp value
\* is below thresh; the padding stays 0
pixThresholdToBinary(ps, thresh) ==
    MakePix(ps.w, ps.h, 1,
            [i \in 0..(ps.h - 1), j \in RowPixels(ps.w, 1) |->
                IF j < ps.w /\ GetPixel(ps, i, j) < thresh THEN 1 ELSE 0])

\* pixThresholdTo2bpp, pixThresholdTo4bpp, pixThresholdOn8bpp: an image of
\* pixs's size and of depth d, with a colormap if cmapflag; what it holds is
\* not looked at here
pixThresholdToDepth(ps, d, cmapflag) ==
    IF cmapflag # 0 THEN WithCmap(pixCreate(ps.w, ps.h, d), <<>>)
    ELSE pixCreate(ps.w, ps.h, d)

\* [ret, heap, oob]
pixThreshold8(hp, pixs, d, nlevels, cmapflag) ==
    IF pixs = NULL THEN [ret |-> ERROR_PTR(NULL), heap |-> hp, oob |-> FALSE]
    ELSE IF hp[pixs].d # 8 THEN [ret |-> ERROR_PTR(NULL), heap |-> hp, oob |-> FALSE]
    ELSE IF cmapflag # 0 /\ nlevels < 2
    THEN [ret |-> ERROR_PTR(NULL), heap |-> hp, oob |-> FALSE]
    ELSE IF d \notin {1, 2, 4, 8}
    THEN [ret |-> ERROR_PTR(NULL), heap |-> hp, oob |-> FALSE]
    ELSE LET pixd == IF d = 1
                     THEN (IF cmapflag # 0
                           THEN WithCmap(pixThresholdToBinary(hp[pixs], 128),
                                         << <<0, 0, 0>>, <<255, 255, 255>> >>)
                           ELSE pixThresholdToBinary(hp[pixs], 128))
                     ELSE pixThresholdToDepth(hp[pixs], d, cmapflag)
         IN  [ret |-> NewAddr(hp), heap |-> [hp EXCEPT ![NewAddr(hp)] = pixd],
              oob |-> FALSE]

\* the entries of cmaps added in the opposite order
pixcmapAddColorsReversed(cmaps) == [k \in 1..Len(cmaps) |-> cmaps[Len(cmaps) + 1 - k]]

\* the colormap that the loop of pixcmapGetColor(cmaps, i, ...) and
\* pixcmapAddColor(cmapd, ...) over i < ncolor fills
pixcmapAddColors(cmaps) == [k \in 1..Len(cmaps) |-> cmaps[k]]

\* [ret, heap, oob]; val0 .. val3 are l_uint8
pixConvert2To8(hp, pixs, val0, val1, val2, val3, cmapflag, uninit) ==
    IF pixs = NULL THEN [ret |-> ERROR_PTR(NULL), heap |-> hp, oob |-> FALSE]
    ELSE IF hp[pixs].d # 2 THEN [ret |-> ERROR_PTR(NULL), heap |-> hp, oob |-> FALSE]
    ELSE IF hp[pixs].hascmap /\ cmapflag = FALSE_
    THEN pixRemoveColormap(hp, pixs, REMOVE_CMAP_TO_GRAYSCALE, uninit)
    ELSE LET ps == hp[pixs]
             wpld == Wpl(ps.w, 8)
             val == <<val0 % 256, val1 % 256, val2 % 256, val3 % 256>>
             cmapd == IF ps.hascmap THEN pixcmapAddColors(ps.cmap)
                      ELSE [k \in 1..4 |-> <<val[k], val[k], val[k]>>]
             pixd == pixCreate(ps.w, ps.h, 8)
             data == [b \in 1..(4 * wpld * ps.h) |->
                         LET i == (b - 1) \div (4 * wpld)
                             j == (b - 1) % (4 * wpld)
                             dibit == GET_DATA_DIBIT(ps.data, 4 * ps.wpl * i, j)
                         IN  IF cmapflag = TRUE_
                             THEN (IF j < ps.w THEN dibit ELSE 0)
                             ELSE val[dibit + 1]] \o <<>>
         IN  [ret |-> NewAddr(hp),
              heap |-> [hp EXCEPT ![NewAddr(hp)] =
                           IF cmapflag = TRUE_
                           THEN WithCmap([pixd EXCEPT !.data = data], cmapd)
                           ELSE [pixd EXCEPT !.data = data]],
              oob |-> FALSE]

\* [ret, heap, oob]
pixConvert4To8(hp, pixs, cmapflag, uninit) ==
    IF pixs = NULL THEN [ret |-> ERROR_PTR(NULL), heap |-> hp, oob |-> FALSE]
    ELSE IF hp[pixs].d # 4 THEN [ret |-> ERROR_PTR(NULL), heap |-> hp, oob |-> FALSE]
    ELSE IF hp[pixs].hascmap /\ cmapflag = FALSE_
    THEN pixRemoveColormap(hp, pixs, REMOVE_CMAP_TO_GRAYSCALE, uninit)
    ELSE LET ps == hp[pixs]
             wpld == Wpl(ps.w, 8)
             cmapd == IF ps.hascmap THEN pixcmapAddColors(ps.cmap)
                      ELSE [k \in 1..16 |-> <<17 * (k - 1), 17 * (k - 1), 17 * (k - 1)>>]
             pixd == pixCreate(ps.w, ps.h, 8)
             data == [b \in 1..(4 * wpld * ps.h) |->
                         LET i == (b - 1) \div (4 * wpld)
                             j == (b - 1) % (4 * wpld)
                             qbit == GET_DATA_QBIT(ps.data, 4 * ps.wpl * i, j)
                         IN  IF j >= ps.w THEN 0
                             ELSE IF cmapflag = TRUE_ THEN qbit
                             ELSE 16 * qbit + qbit] \o <<>>
         IN  [ret |-> NewAddr(hp),
              heap |-> [hp EXCEPT ![NewAddr(hp)] =
                           IF cmapflag = TRUE_
                           THEN WithCmap([pixd EXCEPT !.data = data], cmapd)
                           ELSE [pixd EXCEPT !.data = data]],
              oob |-> FALSE]

\* the least significant byte of every 16-bit pixel, whatever whichbyte
ByteOf16AlwaysLSB(whichbyte) == 1

\* the offset of the byte taken from a 16-bit pixel: 1, the least significant,
\* when whichbyte is 0, and 0, the most significant, otherwise
ByteOf16(whichbyte) == IF whichbyte = 0 THEN 1 ELSE 0

\* [ret, heap, oob]: for every word of a row of pixs its first and third
\* byte (whichbyte # 0) or its second and fourth (whichbyte = 0) go to the
\* next two bytes of the row of pixd
pixConvert16To8(hp, pixs, whichbyte) ==
    IF pixs = NULL THEN [ret |-> ERROR_PTR(NULL), heap |-> hp, oob |-> FALSE]
    ELSE IF hp[pixs].d # 16 THEN [ret |-> ERROR_PTR(NULL), heap |-> hp, oob |-> FALSE]
    ELSE LET ps == hp[pixs]
             wpld == Wpl(ps.w, 8)
             data == [b \in 1..(4 * wpld * ps.h) |->
                         LET i == (b - 1) \div (4 * wpld)
                             k == (b - 1) % (4 * wpld)
                         IN  IF k >= 2 * ps.wpl THEN 0
                             ELSE GET_DATA_BYTE(ps.data, 4 * ps.wpl * i,
                                                2 * k + ByteOf16(whichbyte))]
                     \o <<>>
         IN  [ret |-> NewAddr(hp),
              heap |-> [hp EXCEPT ![NewAddr(hp)] =
                           [pixCreate(ps.w, ps.h, 8) EXCEPT !.data = data]],
              oob |-> 2 * ps.wpl > 4 * wpld]

\* pixConvertTo8 with the two values of the 1 bpp case exchanged
pixConvertTo8BitIsWhite(hp, pixs, uninit) ==
    IF pixs = NULL THEN [ret |-> ERROR_PTR(NULL), heap |-> hp, oob |-> FALSE]
    ELSE IF hp[pixs].d = 1 THEN pixConvert1To8(hp, NULL, pixs, 0, 255)
    ELSE [ret |-> ERROR_PTR(NULL), heap |-> hp, oob |-> FALSE]

\* [ret, heap, oob]
pixConvertTo8(hp, pixs, uninit) ==
    IF pixs = NULL THEN [ret |-> ERROR_PTR(NULL), heap |-> hp, oob |-> FALSE]
    ELSE IF hp[pixs].d = 1 THEN pixConvert1To8(hp, NULL, pixs, 255, 0)
    ELSE IF hp[pixs].d = 2 THEN pixConvert2To8(hp, pixs, 0, 85, 170, 255, FALSE_, uninit)
    ELSE IF hp[pixs].d = 4 THEN pixConvert4To8(hp, pixs, FALSE_, uninit)
    ELSE IF hp[pixs].d = 16 THEN pixConvert16To8(hp, pixs, 1)
    ELSE [ret |-> ERROR_PTR(NULL), heap |-> hp, oob |-> FALSE]

\* [ret, heap, oob]
pixConvertForPSWrap(hp, pixs, uninit) ==
    IF pixs = NULL THEN [ret |-> ERROR_PTR(NULL), heap |-> hp, oob |-> FALSE]
    ELSE LET d == hp[pixs].d
             cmap == hp[pixs].hascmap
         IN  CASE d = 1 \/ d = 32 -> [ret |-> pixClone(pixs), heap |-> hp, oob |-> FALSE]
               [] d = 2 -> IF cmap
                           THEN pixRemoveColormap(hp, pixs, REMOVE_CMAP_BASED_ON_SRC, uninit)
                           ELSE pixConvert2To8(hp, pixs, 0, 85, 170, 255, FALSE_, uninit)
               [] d = 4 -> IF cmap
                           THEN pixRemoveColormap(hp, pixs, REMOVE_CMAP_BASED_ON_SRC, uninit)
                           ELSE pixConvert4To8(hp, pixs, FALSE_, uninit)
               [] d = 8 -> pixRemoveColormap(hp, pixs, REMOVE_CMAP_BASED_ON_SRC, uninit)
               [] d = 16 -> pixConvert16To8(hp, pixs, 1)
               [] OTHER -> [ret |-> NULL, heap |-> hp, oob |-> FALSE]

\* what a PIX * that was never assigned can hold: NULL, the address of an
\* image, an address of none
UninitPtrs == {NULL, 2, 4}

\* [ret, heap, oob], n the depth; pixd is returned as it is, unassigned,
\* when pixs is refused
Convert1ToNCmap(hp, pixs, n, garbage) ==
    IF pixs = NULL THEN [ret |-> ERROR_PTR(garbage), heap |-> hp, oob |-> FALSE]
    ELSE IF hp[pixs].d # 1 THEN [ret |-> ERROR_PTR(garbage), heap |-> hp, oob |-> FALSE]
    ELSE LET r == IF n = 2 THEN pixConvert1To2(hp, NULL, pixs, 0, 1)
                  ELSE pixConvert1To4(hp, NULL, pixs, 0, 1)
         IN  [ret |-> r.ret,
              heap |-> [r.heap EXCEPT ![r.ret] =
                           WithCmap(@, << <<255, 255, 255>>, <<0, 0, 0>> >>)],
              oob |-> r.oob]

pixConvert1To2Cmap(hp, pixs, garbage) == Convert1ToNCmap(hp, pixs, 2, garbage)

pixConvert1To4Cmap(hp, pixs, garbage) == Convert1ToNCmap(hp, pixs, 4, garbage)

\* 1 bpp sources: every mask up to MaxW x MaxH, and two wider than a byte
BinSources ==
    TRCMasks \cup {Bin1(MaxW + 6, 2, MaskBits(MaxW + 6, 2, "odd")),
                   Bin1(MaxW + 6, 1, MaskBits(MaxW + 6, 1, "ends"))}

\* sources of 2, 4, 8, 16 and 32 bpp without colormap
PlainSources ==
    UNION {{Gen(w, h, d, 1) : w \in {1, 3, MaxW + 6}, h \in {1, 2}} : d \in {2, 4, 16}}
    \cup {Gen(2, 1, 16, 40000), Gray8(MaxW, 2, 200), RGB32(2, 1, 77)}

DepthSources == BinSources \cup PlainSources \cup CmapSources

\* pixConvertTo8(pixs)
CallPixConvertTo8 ==
    /\ call.op = "none"
    /\ \E src \in DepthSources, pixs \in {NULL, 1}, uninit \in UninitInts :
          LET hp == HeapOf(src, NoPix)
              r == pixConvertTo8(hp, pixs, uninit)
          IN  Returned([op |-> "pixConvertTo8", pixs |-> pixs, oob |-> r.oob], hp, r)
    /\ UNCHANGED <<na, nerr, q, out>>

\* pixThreshold8(pixs, d, nlevels, cmapflag) on an image of the caller's
CallPixThreshold8 ==
    /\ call.op = "none"
    /\ \E src \in {Gray8(1, 1, 77), Gray8(MaxW, MaxH, 200), Gray8(MaxW + 6, 1, 120),
                   Gen(MaxW, 2, 4, 1)},
          pixs \in {NULL, 1}, d \in {1, 2, 3, 4, 8}, nlevels \in {1, 4},
          cmapflag \in {FALSE_, TRUE_} :
          LET hp == HeapOf(src, NoPix)
              r == pixThreshold8(hp, pixs, d, nlevels, cmapflag)
          IN  Returned([op |-> "pixThreshold8", pixs |-> pixs, from |-> NULL, d |-> d,
                        nlevels |-> nlevels, cmapflag |-> cmapflag, oob |-> r.oob],
                       hp, r)
    /\ UNCHANGED <<na, nerr, q, out>>

\* pixThreshold8(pix8, 1, 2, 0) on the pix8 that pixConvertTo8 has just
\* returned; from is the pixs of that call, and heap0 stays the heap from
\* before the two calls
CallThreshold8OfConvertTo8 ==
    /\ call.op = "pixConvertTo8"
    /\ ret # NULL
    /\ LET r == pixThreshold8(heap, ret, 1, 2, FALSE_)
       IN  Returned([op |-> "pixThreshold8", pixs |-> ret, from |-> call.pixs, d |-> 1,
                     nlevels |-> 2, cmapflag |-> FALSE_, oob |-> r.oob], heap0, r)
    /\ UNCHANGED <<na, nerr, q, out>>

\* pixConvertForPSWrap(pixs)
CallPixConvertForPSWrap ==
    /\ call.op = "none"
    /\ \E src \in DepthSources, pixs \in {NULL, 1}, uninit \in UninitInts :
          LET hp == HeapOf(src, NoPix)
              r == pixConvertForPSWrap(hp, pixs, uninit)
          IN  Returned([op |-> "pixConvertForPSWrap", pixs |-> pixs, oob |-> r.oob],
                       hp, r)
    /\ UNCHANGED <<na, nerr, q, out>>

\* val0 .. val3 of pixConvert2To8: the replication, and values past a byte
Vals2To8 == {<<0, 85, 170, 255>>, <<7, 300, 7, 1>>}

\* cmapflag: FALSE, TRUE, and a value that is neither
CmapFlags == {FALSE_, TRUE_, 2}

\* pixConvert2To8(pixs, val0, val1, val2, val3, cmapflag)
CallPixConvert2To8 ==
    /\ call.op = "none"
    /\ \E src \in {x \in PlainSources \cup CmapSources : x.d \in {2, 4}},
          pixs \in {NULL, 1}, vals \in Vals2To8, cmapflag \in CmapFlags,
          uninit \in UninitInts :
          LET hp == HeapOf(src, NoPix)
              r == pixConvert2To8(hp, pixs, vals[1], vals[2], vals[3], vals[4],
                                  cmapflag, uninit)
          IN  Returned([op |-> "pixConvert2To8", pixs |-> pixs, vals |-> vals,
                        cmapflag |-> cmapflag, uninit |-> uninit, oob |-> r.oob], hp, r)
    /\ UNCHANGED <<na, nerr, q, out>>

\* pixConvert4To8(pixs, cmapflag)
CallPixConvert4To8 ==
    /\ call.op = "none"
    /\ \E src \in {x \in PlainSources \cup CmapSources : x.d \in {2, 4}},
          pixs \in {NULL, 1}, cmapflag \in CmapFlags, uninit \in UninitInts :
          LET hp == HeapOf(src, NoPix)
              r == pixConvert4To8(hp, pixs, cmapflag, uninit)
          IN  Returned([op |-> "pixConvert4To8", pixs |-> pixs, cmapflag |-> cmapflag,
                        uninit |-> uninit, oob |-> r.oob], hp, r)
    /\ UNCHANGED <<na, nerr, q, out>>

\* pixConvert16To8(pixs, whichbyte)
CallPixConvert16To8 ==
    /\ call.op = "none"
    /\ \E src \in {x \in PlainSources : x.d \in {8, 16}}, pixs \in {NULL, 1},
          whichbyte \in {0, 1, 2} :
          LET hp == HeapOf(src, NoPix)
              r == pixConvert16To8(hp, pixs, whichbyte)
          IN  Returned([op |-> "pixConvert16To8", pixs |-> pixs,
                        whichbyte |-> whichbyte, oob |-> r.oob], hp, r)
    /\ UNCHANGED <<na, nerr, q, out>>

\* pixConvert1To2Cmap(pixs) and pixConvert1To4Cmap(pixs)
CallPixConvert1To2Cmap ==
    /\ call.op = "none"
    /\ \E src \in BinSources \cup {Gray8(MaxW, 2, 200)}, pixs \in {NULL, 1},
          garbage \in UninitPtrs :
          LET hp == HeapOf(src, NoPix)
              r == pixConvert1To2Cmap(hp, pixs, garbage)
          IN  Returned([op |-> "pixConvert1To2Cmap", pixs |-> pixs, n |-> 2,
                        oob |-> r.oob], hp, r)
    /\ UNCHANGED <<na, nerr, q, out>>

CallPixConvert1To4Cmap ==
    /\ call.op = "none"
    /\ \E src \in BinSources \cup {Gray8(MaxW, 2, 200)}, pixs \in {NULL, 1},
          garbage \in UninitPtrs :
          LET hp == HeapOf(src, NoPix)
              r == pixConvert1To4Cmap(hp, pixs, garbage)
          IN  Returned([op |-> "pixConvert1To4Cmap", pixs |-> pixs, n |-> 4,
                        oob |-> r.oob], hp, r)
    /\ UNCHANGED <<na, nerr, q, out>>

NextDepth ==
    \/ CallPixConvertTo8
    \/ CallPixThreshold8
    \/ CallThreshold8OfConvertTo8
    \/ CallPixConvertForPSWrap
    \/ CallPixConvert2To8
    \/ CallPixConvert4To8
    \/ CallPixConvert16To8
    \/ CallPixConvert1To2Cmap
    \/ CallPixConvert1To4Cmap

SpecDepth == Init /\ [][NextDepth]_vars

(***************************************************************************)
(* enhance.c: pixUnsharpMask, pixUnsharpMaskColor, pixUnsharpMaskGray      *)
(***************************************************************************)

\* fract in tenths
Fracts == {-5, 0, 5}

\* the test with < in place of <=
NoFractionBelowZero(fract) == fract < 0

\* if (fract <= 0.0)
NoFraction(fract) == fract <= 0

\* pixDestroy(&pix) of the only handle on the PIX at address a
pixDestroy(hp, a) == [hp EXCEPT ![a] = NoPix]

\* [ret, heap].  With a fraction to add, pixBlockconvGray and the accumulator
\* calls give a new 8 bpp image of pixs's size; what it holds is not looked
\* at here
pixUnsharpMaskGray(hp, pixs, smooth, fract) ==
    IF pixs = NULL THEN [ret |-> ERROR_PTR(NULL), heap |-> hp]
    ELSE IF hp[pixs].d # 8 THEN [ret |-> ERROR_PTR(NULL), heap |-> hp]
    ELSE IF NoFraction(fract) THEN [ret |-> pixClone(pixs), heap |-> hp]
    ELSE [ret |-> NewAddr(hp),
          heap |-> [hp EXCEPT ![NewAddr(hp)] = pixCreate(hp[pixs].w, hp[pixs].h, 8)]]

\* [ret, heap].  With a fraction to add, the three components sharpened by
\* pixUnsharpMaskGray and put together by pixCreateRGBImage give a new 32 bpp
\* image of pixs's size; what it holds is not looked at here
pixUnsharpMaskColor(hp, pixs, smooth, fract) ==
    IF pixs = NULL THEN [ret |-> ERROR_PTR(NULL), heap |-> hp]
    ELSE IF hp[pixs].d # 32 THEN [ret |-> ERROR_PTR(NULL), heap |-> hp]
    ELSE IF NoFraction(fract) THEN [ret |-> pixClone(pixs), heap |-> hp]
    ELSE [ret |-> NewAddr(hp),
          heap |-> [hp EXCEPT ![NewAddr(hp)] = pixCreate(hp[pixs].w, hp[pixs].h, 32)]]

\* [ret, heap]
pixUnsharpMask(hp, pix, smooth, fract, uninit) ==
    IF pix = NULL THEN [ret |-> ERROR_PTR(NULL), heap |-> hp]
    ELSE IF NoFraction(fract) THEN [ret |-> pixClone(pix), heap |-> hp]
    ELSE LET removes == hp[pix].d \in {2, 4, 8} /\ hp[pix].hascmap
             rm == IF removes
                   THEN pixRemoveColormap(hp, pix, REMOVE_CMAP_BASED_ON_SRC, uninit)
                   ELSE [ret |-> pixClone(pix), heap |-> hp]
             pixs == rm.ret
             d == rm.heap[pixs].d
             \* pixDestroy(&pixs): the last handle only when pixs is new
             destroyed(h) == IF removes THEN pixDestroy(h, pixs) ELSE h
         IN  IF d # 8 /\ d # 32
             THEN [ret |-> ERROR_PTR(NULL), heap |-> destroyed(rm.heap)]
             ELSE LET r == IF d = 8
                           THEN pixUnsharpMaskGray(rm.heap, pixs, smooth, fract)
                           ELSE pixUnsharpMaskColor(rm.heap, pixs, smooth, fract)
                  IN  [ret |-> r.ret, heap |-> destroyed(r.heap)]

\* pixUnsharpMask(pix, smooth, fract)
CallPixUnsharpMask ==
    /\ call.op = "none"
    /\ \E src \in DepthSources, pix \in {NULL, 1}, smooth \in {1, 2}, fract \in Fracts,
          uninit \in UninitInts :
          LET hp == HeapOf(src, NoPix)
          IN  Returned([op |-> "pixUnsharpMask", pixs |-> pix, smooth |-> smooth,
                        fract |-> fract],
                       hp, pixUnsharpMask(hp, pix, smooth, fract, uninit))
    /\ UNCHANGED <<na, nerr, q, out>>

\* pixUnsharpMaskGray(pixs, smooth, fract)
CallPixUnsharpMaskGray ==
    /\ call.op = "none"
    /\ \E src \in DepthSources, pixs \in {NULL, 1}, smooth \in {1, 2}, fract \in Fracts :
          LET hp == HeapOf(src, NoPix)
          IN  Returned([op |-> "pixUnsharpMaskGray", pixs |-> pixs, smooth |-> smooth,
                        fract |-> fract],
                       hp, pixUnsharpMaskGray(hp, pixs, smooth, fract))
    /\ UNCHANGED <<na, nerr, q, out>>

\* pixUnsharpMaskColor(pixs, smooth, fract)
CallPixUnsharpMaskColor ==
    /\ call.op = "none"
    /\ \E src \in DepthSources, pixs \in {NULL, 1}, smooth \in {1, 2}, fract \in Fracts :
          LET hp == HeapOf(src, NoPix)
          IN  Returned([op |-> "pixUnsharpMaskColor", pixs |-> pixs, smooth |-> smooth,
                        fract |-> fract],
                       hp, pixUnsharpMaskColor(hp, pixs, smooth, fract))
    /\ UNCHANGED <<na, nerr, q, out>>

NextUnsharp == CallPixUnsharpMask \/ CallPixUnsharpMaskGray \/ CallPixUnsharpMaskColor

SpecUnsharp == Init /\ [][NextUnsharp]_vars

(***************************************************************************)
(* The calls that return a new image: pixRemoveColormap, the tone and HSV  *)
(* calls, pixConvertRGBToColormap and pixConvertGrayToColormap8, side by   *)
(* side.                                                                   *)
(***************************************************************************)
NextSource ==
    \/ CallPixRemoveColormap
    \/ CallPixGammaTRC
    \/ CallPixContrastTRC
    \/ CallPixConvertRGBToHSV
    \/ CallPixConvertRGBToColormap
    \/ ScanPixel
    \/ FinishScan
    \/ CallPixConvertGrayToColormap8

SpecSource == Init /\ [][NextSource]_vars

(***************************************************************************)
(* Claims about the tables.                                                *)
(***************************************************************************)
Linear256 == [k \in 1..256 |-> k - 1]

\* C1: numaContrastTRC(0.0) returns exactly the linear sequence 0, 1, ..., 255.
C1_ContrastZeroIsLinear ==
    (call.op = "numaContrastTRC" /\ call.factor = 0) => na = Linear256

\* C2: for every minval < maxval and every gamma the table returned by
\* numaGammaTRC has exactly 256 entries (the size pixTRCMap accepts).
C2_GammaTableHas256 ==
    (call.op = "numaGammaTRC" /\ call.minval < call.maxval) => Len(na) = 256

\* C3: for gamma = 1.0 and minval < maxval, entry i of the table, i in 0..255, is
\* 0 below minval, 255 above maxval and floor(255 (i - minval) / (maxval - minval)
\* + 1/2) in between (a value that needs no clamping); (1.0, 0, 255) gives the
\* identity; the table never decreases.
C3_GammaOneTable ==
    (call.op = "numaGammaTRC" /\ call.g2 = 2 /\ call.minval < call.maxval) =>
        LET mn == call.minval
            mx == call.maxval
        IN  /\ Len(na) >= 256
            /\ \A i \in 0..255 :
                  LET v == na[i + 1]
                  IN  /\ v \in 0..255
                      /\ i < mn => v = 0
                      /\ i > mx => v = 255
                      /\ (mn <= i /\ i <= mx) =>
                            /\ 2 * (mx - mn) * v <= 510 * (i - mn) + (mx - mn)
                            /\ 510 * (i - mn) + (mx - mn) < 2 * (mx - mn) * (v + 1)
            /\ (mn = 0 /\ mx = 255) => \A i \in 0..255 : na[i + 1] = i
            /\ \A k \in 1..(Len(na) - 1) : na[k] <= na[k + 1]

\* a gamma 1.0 table over [50, 200]: 0 up to 50, 128 at 125, 255 from 200 on
C3_Witness ==
    /\ call.op = "numaGammaTRC" /\ call.g2 = 2
    /\ call.minval = 50 /\ call.maxval = 200
    /\ Len(na) = 256
    /\ na[1] = 0 /\ na[51] = 0 /\ na[126] = 128 /\ na[201] = 255 /\ na[256] = 255

(***************************************************************************)
(* Claims about pixTRCMap.                                                 *)
(***************************************************************************)
\* a call of pixTRCMap that went through
TRCMapDone == call.op = "pixTRCMap" /\ ret = 0

\* whether pixel (i, j) lies under the foreground of the mask pm
UnderMask(pm, i, j) == i < pm.h /\ j < pm.w /\ GetPixel(pm, i, j) = 1

\* C4: pixTRCMap on a 32 bpp image leaves the fourth (alpha) byte of every
\* pixel as it was, with and without a mask.
C4_AlphaUntouched ==
    (TRCMapDone /\ heap0[1].d = 32) =>
        \A i \in 0..(heap0[1].h - 1), j \in 0..(heap0[1].w - 1) :
            GetPixel(heap[1], i, j)[4] = GetPixel(heap0[1], i, j)[4]

\* C5: pixTRCMap with a mask leaves every pixel that is not under the mask's
\* foreground (rows at or beyond the mask's height, columns at or beyond its
\* width, mask bit 0, row padding) bit for bit as it was, and the mask too;
\* an 8 bpp pixel under the foreground becomes table[old value].
C5_MaskedFrame ==
    (TRCMapDone /\ call.pixm # NULL) =>
        LET ps == heap0[1]
            pd == heap[1]
            pm == heap0[3]
        IN  /\ heap[3] = pm
            /\ \A i \in 0..(ps.h - 1), j \in RowPixels(ps.w, ps.d) :
                  /\ ~UnderMask(pm, i, j) => GetPixel(pd, i, j) = GetPixel(ps, i, j)
                  /\ (UnderMask(pm, i, j) /\ j < ps.w /\ ps.d = 8) =>
                        GetPixel(pd, i, j) = na[GetPixel(ps, i, j) + 1]

\* the 4 x 4 example: mask set at (0, 0) and (3, 3) only, an all-zero table;
\* no pixel was zero, and exactly those two are zero afterwards
C5_Witness ==
    /\ TRCMapDone
    /\ call.pixm # NULL
    /\ heap0[1].w = 4 /\ heap0[1].h = 4 /\ heap0[1].d = 8
    /\ heap0[3] = Bin1(4, 4, {<<0, 0>>, <<3, 3>>})
    /\ na = ZeroTab
    /\ \A i \in 0..3, j \in 0..3 :
          /\ GetPixel(heap0[1], i, j) # 0
          /\ GetPixel(heap[1], i, j) =
                IF <<i, j>> \in {<<0, 0>>, <<3, 3>>} THEN 0 ELSE GetPixel(heap0[1], i, j)

(***************************************************************************)
(* Claims about refused arguments.                                         *)
(***************************************************************************)
\* pixs has a depth the tone calls do not take
BadToneDepth(pix) == ~pix.hascmap /\ pix.d # 8 /\ pix.d # 32

\* the call was made with arguments the function refuses
ValidationFailure ==
    CASE call.op \in {"pixGammaTRC", "pixGammaTRCMasked"} ->
             \/ call.pixs = NULL
             \/ call.pixd # NULL /\ call.pixd # call.pixs
             \/ call.minval >= call.maxval
             \/ BadToneDepth(heap0[call.pixs])
             \/ call.pixm # NULL /\ heap0[call.pixs].hascmap
      [] call.op \in {"pixContrastTRC", "pixContrastTRCMasked"} ->
             /\ call.factor >= 0
             /\ \/ call.pixs = NULL
                \/ call.pixd # NULL /\ call.pixd # call.pixs
                \/ BadToneDepth(heap0[call.pixs])
                \/ call.pixm # NULL /\ heap0[call.pixs].hascmap
      [] call.op \in {"pixConvertRGBToHSV", "pixConvertHSVToRGB"} ->
             \/ call.pixs = NULL
             \/ call.pixd # NULL /\ call.pixd # call.pixs
             \/ ~heap0[call.pixs].hascmap /\ heap0[call.pixs].d # 32
      [] call.op \in {"pixConvert1To2", "pixConvert1To4", "pixConvert1To8",
                      "pixConvert1To16", "pixConvert1To32"} ->
             \/ call.pixs = NULL
             \/ heap0[call.pixs].d # 1
             \/ /\ call.pixd # NULL
                /\ \/ heap0[call.pixd].w # heap0[call.pixs].w
                   \/ heap0[call.pixd].h # heap0[call.pixs].h
                   \/ heap0[call.pixd].d # call.n
      [] OTHER -> FALSE

\* pixConvert1To16 and pixConvert1To32 without a 1 bpp pixs
NoBinarySource ==
    /\ call.op \in {"pixConvert1To16", "pixConvert1To32"}
    /\ (call.pixs = NULL \/ heap0[call.pixs].d # 1)

\* C6 as stated: a call with refused arguments returns NULL and writes no
\* pixel.
C6_FailureReturnsNull ==
    ValidationFailure => (ret = NULL /\ heap = heap0)

\* C6: a call with refused arguments writes no pixel and returns the pixd it
\* was given (NULL only if that was NULL) -- except pixConvert1To16 and
\* pixConvert1To32 without a 1 bpp pixs, which return NULL.
C6_FailureReturnsPixd ==
    ValidationFailure =>
        /\ heap = heap0
        /\ ret = IF NoBinarySource THEN NULL ELSE call.pixd

\* an in-place pixGammaTRC on an 8 or 32 bpp or colormapped image with
\* minval >= maxval: pixd comes back, untouched
C6_WitnessTone ==
    /\ call.op = "pixGammaTRC"
    /\ call.pixd = 1 /\ call.pixs = 1
    /\ call.minval >= call.maxval
    /\ ~BadToneDepth(heap0[1])
    /\ ret = 1
    /\ heap = heap0

(***************************************************************************)
(* Claims about pixConvertRGBToColormap.                                   *)
(***************************************************************************)
\* the exact path has returned
QuantDone == call.op = "pixConvertRGBToColormap" /\ q.pc = "done"

\* the source's pixels in scan order, 1 the first, and their number
SrcPixels == [p \in 1..(heap0[1].w * heap0[1].h) |-> PixAt(heap0[1], p)]
NPix == heap0[1].w * heap0[1].h

RGBOf(px) == <<px[1], px[2], px[3]>>

\* the octcube of every pixel at the level of the call, as a sequence
SrcCubes == [p \in 1..NPix |-> OctOf(PixAt(heap0[1], p), call.level)] \o <<>>

\* whether pixel p is the first met in its octcube, cubes[p] being the
\* octcube of pixel p; as a sequence
IsFirst(cubes) == [p \in 1..NPix |-> \A o \in 1..(p - 1) : cubes[o] # cubes[p]] \o <<>>

\* the index emitted for pixel p
EmittedIndex(p) == GetPixel(heap[ret], (p - 1) \div heap0[1].w, (p - 1) % heap0[1].w)

\* the number of distinct (r, g, b) in the source
DistinctColours == Cardinality({RGBOf(PixAt(heap0[1], p)) : p \in 1..NPix})

\* no two different pixel values lie in one octcube
NoSharedCube(cubes) ==
    \A o \in 1..NPix, p \in 1..NPix :
        cubes[o] = cubes[p] => PixAt(heap0[1], o) = PixAt(heap0[1], p)

C8_NerrorsCountsColourMismatches ==
    QuantDone =>
        nerr = Cardinality({p \in 1..NPix :
                   RGBOf(PixAt(heap0[1], p)) # heap[ret].cmap[EmittedIndex(p) + 1]})

OccupiedCount == Cardinality(OccupiedCubes(heap0[1], call.level))

\* what C10 says apart from the bound on cindex, N the number of occupied
\* octcubes: in the loop and after it,
\* the depth is 2, 4 or 8 by N, N <= 2^depth, and no store leaves
\* colorarray or octarray; after it, the colormap has N entries and every
\* index is below N
QuantInBounds(N) ==
    LET depth == heap[q.pixd].d
    IN  /\ depth = IF N <= 4 THEN 2 ELSE IF N <= 16 THEN 4 ELSE 8
        /\ N <= 256
        /\ N <= Pow2(depth)
        /\ ~q.oob
        /\ q.pc = "done" =>
              /\ Len(heap[ret].cmap) = N
              /\ \A p \in 1..NPix : EmittedIndex(p) < N

\* C10 as stated: ... and the running index cindex never exceeds N.
C10_CindexAtMostN ==
    (q.pc \in {"scan", "done"}) =>
        LET N == OccupiedCount
        IN  QuantInBounds(N) /\ q.cindex <= N

\* C10: ... and the running index cindex never exceeds N + 1, the value it
\* has after the last octcube was met; it is at most N at every store.
C10_CindexAtMostNPlus1 ==
    (q.pc \in {"scan", "done"}) =>
        LET N == OccupiedCount
        IN  QuantInBounds(N) /\ q.cindex <= N + 1

\* 256 octcubes: depth 8, 256 entries, and cindex has gone to 257
C10_Witness ==
    /\ QuantDone
    /\ OccupiedCount = 256
    /\ heap[ret].d = 8
    /\ Len(heap[ret].cmap) = 256
    /\ EmittedIndex(256) = 255
    /\ q.cindex = 257

\* pixConvertRGBToColormap refused its arguments
QuantRefused == call.op = "pixConvertRGBToColormap" /\ q.pc = "idle"

\* C11: when pixConvertRGBToColormap is given a pnerrors and fails (no pixs,
\* pixs not 32 bpp, level outside 1 .. 6), *pnerrors is UNDEF afterwards,
\* whatever it held before.
C11_FailureLeavesUndef ==
    (QuantRefused /\ call.haspn /\ ret = NULL) => nerr = UNDEF

(***************************************************************************)
(* Claims about convertRGBToHSV and convertHSVToRGB.                       *)
(***************************************************************************)
\* convertRGBToHSV has stored h, s, v in out
RGBToHSVDone == call.op = "convertRGBToHSV" /\ ret = 0

\* convertHSVToRGB has run on the h, s, v that convertRGBToHSV made of call.rgb
WentBack == call.op = "convertHSVToRGB" /\ call.rgb # <<>>

\* C12 as stated: for every r, g, b in 0 .. 255 the hue of convertRGBToHSV is
\* in [0, 240), 240 never being produced, and s and v are in 0 .. 255.
C12_HueBelow240 ==
    RGBToHSVDone =>
        /\ out[1] \in 0..239
        /\ out[2] \in 0..255
        /\ out[3] \in 0..255

\* C12: for every r, g, b in 0 .. 255 the hue of convertRGBToHSV is in the
\* closed range 0 .. 240, where 240 is produced and stands for the hue 0, and
\* s and v are in 0 .. 255.
C12_HueUpTo240 ==
    RGBToHSVDone =>
        /\ out[1] \in 0..240
        /\ out[2] \in 0..255
        /\ out[3] \in 0..255

\* h = -.078 + 240 rounds to 240
C12_Witness ==
    /\ RGBToHSVDone
    /\ call.rgb = <<255, 0, 1>>
    /\ out = <<240, 255, 255>>

\* the hue that the notes of convertRGBToHSV give to the six pure colours
DocumentedHue(rgb) ==
    CASE rgb = <<255, 0, 0>> -> {40}
      [] rgb = <<255, 255, 0>> -> {80}
      [] rgb = <<0, 255, 0>> -> {120}
      [] rgb = <<0, 255, 255>> -> {160}
      [] rgb = <<0, 0, 255>> -> {200}
      [] rgb = <<255, 0, 255>> -> {0, 240}
      [] OTHER -> 0..240

\* C13: convertRGBToHSV gives red the hue 40, yellow 80, green 120, cyan 160,
\* blue 200 and magenta 0 or 240.
C13_PureColoursAtDocumentedHues ==
    RGBToHSVDone => out[1] \in DocumentedHue(call.rgb)

Saturated(rgb) ==
    /\ L_MAX(L_MAX(rgb[1], rgb[2]), rgb[3]) = 255
    /\ L_MIN(L_MIN(rgb[1], rgb[2]), rgb[3]) = 0

Gray(rgb) == rgb[1] = rgb[2] /\ rgb[2] = rgb[3]

Abs(x) == IF x < 0 THEN -x ELSE x

\* every component of a is within tol of the one of b
Within(a, b, tol) == \A k \in 1..3 : Abs(a[k] - b[k]) <= tol

\* C14 as stated: for every fully saturated colour and every gray,
\* convertHSVToRGB on the output of convertRGBToHSV succeeds and gives each
\* of r, g, b back within 1.
C14_BackWithinOne ==
    (WentBack /\ (Saturated(call.rgb) \/ Gray(call.rgb))) =>
        ret = 0 /\ Within(out, call.rgb, 1)

\* C14: for every fully saturated colour and every gray, convertHSVToRGB on
\* the output of convertRGBToHSV succeeds; it gives each of r, g, b back
\* within 3 for a saturated colour and exactly for a gray.
C14_BackWithinThree ==
    /\ (WentBack /\ Saturated(call.rgb)) => ret = 0 /\ Within(out, call.rgb, 3)
    /\ (WentBack /\ Gray(call.rgb)) => ret = 0 /\ out = call.rgb

\* a saturated colour that comes back with a component 3 off
C14_Witness ==
    /\ WentBack
    /\ Saturated(call.rgb)
    /\ ret = 0
    /\ \E k \in 1..3 : Abs(out[k] - call.rgb[k]) = 3

\* C15: convertRGBToHSV(v, v, v) gives h = 0, s = 0 and value v for every v
\* in 0 .. 255, v = 0 included, dividing by nothing; convertHSVToRGB with
\* s = 0 gives (v, v, v) whatever the hue argument, a hue outside 0 .. 240
\* included.
C15_GrayIsHueless ==
    /\ (RGBToHSVDone /\ Gray(call.rgb)) => out = <<0, 0, call.rgb[1]>>
    /\ (call.op = "convertHSVToRGB" /\ call.hsv[2] = 0) =>
           ret = 0 /\ out = <<call.hsv[3], call.hsv[3], call.hsv[3]>>

\* s = 0 with the hue 241, which is refused when s > 0
C15_Witness ==
    /\ call.op = "convertHSVToRGB"
    /\ call.hsv = <<241, 0, 128>>
    /\ ret = 0
    /\ out = <<128, 128, 128>>

(***************************************************************************)
(* Claims about the conversion of gray images to colormapped ones.         *)
(***************************************************************************)
\* the gray values of the pixels of an 8 bpp image
GraysOf(pix) == {PixAt(pix, p) : p \in 1..(pix.w * pix.h)}

\* pixConvertGrayToColormap8 has converted an 8 bpp image without colormap,
\* with a mindepth of 2, 4 or 8
Gray8Converted ==
    /\ call.op = "pixConvertGrayToColormap8"
    /\ call.pixs # NULL
    /\ heap0[call.pixs].d = 8
    /\ ~heap0[call.pixs].hascmap
    /\ call.mindepth \in {2, 4, 8}

\* cmap is exactly the values of grays, each as (v, v, v), in rising order
CmapIsGrays(cmap, grays) ==
    /\ Len(cmap) = Cardinality(grays)
    /\ \A k \in 1..Len(cmap) :
          /\ cmap[k][1] \in grays
          /\ cmap[k] = <<cmap[k][1], cmap[k][1], cmap[k][1]>>
          /\ k > 1 => cmap[k - 1][1] < cmap[k][1]

\* every pixel of pixd, read at pixd's depth, is the index of the colormap
\* entry (g, g, g) for the g of the same pixel of pixs
PixelsIndexGrays(pixd, pixs) ==
    /\ pixd.w = pixs.w
    /\ pixd.h = pixs.h
    /\ \A p \in 1..(pixs.w * pixs.h) :
          LET g == PixAt(pixs, p)
              index == PixAt(pixd, p)
          IN  /\ index < Len(pixd.cmap)
              /\ pixd.cmap[index + 1] = <<g, g, g>>

\* C16: pixConvertGrayToColormap8 is lossless for every 8 bpp image without
\* colormap and every mindepth of 2, 4 and 8: the colormap holds exactly the
\* gray values of pixs, each as (v, v, v), in rising order, and every pixel
\* of pixd, read at pixd's own depth, is the index of the entry that equals
\* the gray value of the same pixel of pixs.
C16_GrayToColormap8Lossless ==
    Gray8Converted =>
        /\ ret # NULL
        /\ ~call.oob
        /\ heap[ret].hascmap
        /\ heap[ret].d \in {2, 4, 8}
        /\ CmapIsGrays(heap[ret].cmap, GraysOf(heap0[call.pixs]))
        /\ PixelsIndexGrays(heap[ret], heap0[call.pixs])

\* two gray values met in falling order, mindepth 2
C16_Witness ==
    /\ Gray8Converted
    /\ call.mindepth = 2
    /\ GraysOf(heap0[call.pixs]) = {7, 247}
    /\ PixAt(heap0[call.pixs], 1) = 247
    /\ heap[ret].cmap = << <<7, 7, 7>>, <<247, 247, 247>> >>
    /\ PixAt(heap[ret], 1) = 1
    /\ PixAt(heap[ret], 2) = 0

\* the depth the notes of pixConvertGrayToColormap8 give for ngray values
NotedDepth(mindepth, ngray) ==
    IF mindepth = 8 \/ ngray > 16 THEN 8
    ELSE IF mindepth = 4 \/ ngray > 4 THEN 4
    ELSE 2

\* C17: pixConvertGrayToColormap8 takes the depth of pixd from mindepth and
\* the number ngray of different gray values in pixs: 8 if mindepth is 8 or
\* ngray > 16, else 4 if mindepth is 4 or ngray > 4, else 2; so
\* pixConvertGrayToColormap gives a 2 or 4 bpp image back at its own depth.
C17_DepthFromGrayCount ==
    /\ Gray8Converted =>
          heap[ret].d = NotedDepth(call.mindepth,
                                   Cardinality(GraysOf(heap0[call.pixs])))
    /\ ( /\ call.op = "pixConvertGrayToColormap"
         /\ call.pixs # NULL
         /\ heap0[call.pixs].d \in {2, 4}
         /\ ~heap0[call.pixs].hascmap ) =>
          heap[ret].d = heap0[call.pixs].d

(***************************************************************************)
(* Claims about pixRemoveColormap.                                         *)
(***************************************************************************)
\* pixRemoveColormap was called on a colormapped image of 1, 2, 4 or 8 bpp
RemoveCalled ==
    /\ call.op = "pixRemoveColormap"
    /\ call.pixs # NULL
    /\ heap0[call.pixs].hascmap
    /\ heap0[call.pixs].d \in {1, 2, 4, 8}

IsGrayEntry(e) == e[1] = e[2] /\ e[2] = e[3]

\* the policy in words: "binary", "gray" or "color"
ResolvedPolicy(type, d, cmap) ==
    IF \/ type \notin { REMOVE_CMAP_TO_BINARY, REMOVE_CMAP_TO_GRAYSCALE,
                        REMOVE_CMAP_TO_FULL_COLOR }
       \/ (type = REMOVE_CMAP_TO_BINARY /\ d # 1)
    THEN IF \E k \in 1..Len(cmap) : ~IsGrayEntry(cmap[k]) THEN "color"
         ELSE IF d = 1 THEN "binary"
         ELSE "gray"
    ELSE IF type = REMOVE_CMAP_TO_BINARY THEN "binary"
    ELSE IF type = REMOVE_CMAP_TO_GRAYSCALE THEN "gray"
    ELSE "color"

PolicyDepth(policy) ==
    CASE policy = "binary" -> 1 [] policy = "gray" -> 8 [] policy = "color" -> 32

\* C18: on a colormapped image of depth 1, 2, 4 or 8 pixRemoveColormap takes
\* an invalid type, and REMOVE_CMAP_TO_BINARY with d # 1, as
\* REMOVE_CMAP_BASED_ON_SRC, which is full colour if the colormap has an
\* entry that is not gray, else binary if d = 1, else grayscale; the result
\* is a new image of 1 bpp for binary, 8 bpp for grayscale and 32 bpp for
\* full colour, of the size of pixs and without a colormap, and pixs is left
\* as it was.  An image without a colormap comes back as a clone.
C18_RemovePolicy ==
    /\ RemoveCalled =>
          LET ps == heap0[call.pixs]
          IN  /\ ret # NULL
              /\ ret # call.pixs
              /\ heap0[ret] = NoPix
              /\ heap[call.pixs] = ps
              /\ ~heap[ret].hascmap
              /\ heap[ret].w = ps.w
              /\ heap[ret].h = ps.h
              /\ heap[ret].d = PolicyDepth(ResolvedPolicy(call.type, ps.d, ps.cmap))
    /\ ( /\ call.op = "pixRemoveColormap"
         /\ call.pixs # NULL
         /\ ~heap0[call.pixs].hascmap ) =>
          ret = call.pixs /\ heap = heap0

\* REMOVE_CMAP_TO_BINARY on a 2 bpp image whose colormap has a colour
C18_Witness ==
    /\ RemoveCalled
    /\ call.type = REMOVE_CMAP_TO_BINARY
    /\ heap0[call.pixs].d = 2
    /\ heap0[call.pixs].cmap = ColorCmap
    /\ heap[ret].d = 32
    /\ ~heap[ret].hascmap

\* C19: when pixRemoveColormap removes the colormap of a 1 bpp image to
\* binary, the bits are inverted exactly when entry 0 is black (0, 0, 0) and
\* kept otherwise, so that a pixel of the result is 1 exactly when the
\* colour of the pixel in pixs was black.
C19_InvertedWhenEntry0Black ==
    ( /\ RemoveCalled
      /\ heap0[call.pixs].d = 1
      /\ ResolvedPolicy(call.type, 1, heap0[call.pixs].cmap) = "binary" ) =>
        LET ps == heap0[call.pixs]
            black == ps.cmap[1] = <<0, 0, 0>>
        IN  \A p \in 1..(ps.w * ps.h) :
               /\ PixAt(heap[ret], p) =
                     IF black THEN 1 - PixAt(ps, p) ELSE PixAt(ps, p)
               /\ PixAt(heap[ret], p) = 1 <=> ps.cmap[PixAt(ps, p) + 1] = <<0, 0, 0>>

(***************************************************************************)
(* Claims about pixConvert8To32 and pixConvertRGBToLuminance.              *)
(***************************************************************************)
\* pixConvert8To32 has converted an 8 bpp image without colormap
Widened ==
    /\ call.op = "pixConvert8To32"
    /\ call.pixs # NULL
    /\ heap0[call.pixs].d = 8
    /\ ~heap0[call.pixs].hascmap

\* pixConvertRGBToLuminance has run on the result of such a pixConvert8To32
WidenedAndBack ==
    /\ call.op = "pixConvertRGBToLuminance"
    /\ call.from # NULL
    /\ heap0[call.from].d = 8
    /\ ~heap0[call.from].hascmap

\* every pixel of the 32 bpp pix has r = g = b = the byte of the 8 bpp src
ReplicatesGray(pix, src) ==
    /\ pix.d = 32
    /\ pix.w = src.w
    /\ pix.h = src.h
    /\ \A p \in 1..(src.w * src.h) :
          LET v == PixAt(src, p)
              px == PixAt(pix, p)
          IN  px[1] = v /\ px[2] = v /\ px[3] = v

\* C20: for every 8 bpp image without colormap, pixConvert8To32 gives a
\* 32 bpp image whose every pixel has R = G = B = the byte of the source, and
\* pixConvertRGBToLuminance (weights 0.3, 0.5, 0.2) on that image gives an
\* 8 bpp image with every byte of the source again.
C20_WidenThenLuminanceIsExact ==
    /\ Widened => ret # NULL /\ ReplicatesGray(heap[ret], heap0[call.pixs])
    /\ WidenedAndBack =>
          LET src == heap0[call.from]
          IN  /\ ReplicatesGray(heap[call.pixs], src)
              /\ ret # NULL
              /\ heap[ret].d = 8
              /\ ~heap[ret].hascmap
              /\ heap[ret].w = src.w
              /\ heap[ret].h = src.h
              /\ \A p \in 1..(src.w * src.h) : PixAt(heap[ret], p) = PixAt(src, p)

\* a source of MaxW x MaxH pixels, the first of them 255, has come back
C20_Witness ==
    /\ WidenedAndBack
    /\ ret # NULL
    /\ heap0[call.from].w = MaxW
    /\ heap0[call.from].h = MaxH
    /\ PixAt(heap0[call.from], 1) = 255
    /\ PixAt(heap[call.pixs], 1) = <<255, 255, 255, 0>>
    /\ PixAt(heap[ret], 1) = 255
    /\ PixAt(heap[ret], 2) = 8

(***************************************************************************)
(* Claims about the conversions between depths.                            *)
(***************************************************************************)

\* pixThreshold8(pix8, 1, 2, 0) has run on what pixConvertTo8 returned for a
\* 1 bpp source without colormap
ThresholdedBack ==
    /\ call.op = "pixThreshold8"
    /\ call.from # NULL
    /\ heap0[call.from].d = 1
    /\ ~heap0[call.from].hascmap

\* C21: a 1 bpp image without colormap, taken to 8 bpp by pixConvertTo8 and
\* back by pixThreshold8 with d = 1 and cmapflag = 0, comes back as a 1 bpp
\* image of the same size with the same bit at every pixel inside the width.
C21_BinaryRoundTrip ==
    ThresholdedBack =>
        LET src == heap0[call.from]
        IN  /\ ret # NULL
            /\ heap[ret].w = src.w /\ heap[ret].h = src.h /\ heap[ret].d = 1
            /\ ~heap[ret].hascmap
            /\ \A p \in 1..(src.w * src.h) : PixAt(heap[ret], p) = PixAt(src, p)

\* a source wider than a byte, with set and clear bits, has come back
C21_Witness ==
    /\ ThresholdedBack
    /\ ret # NULL
    /\ heap0[call.from].w = MaxW + 6
    /\ PixAt(heap0[call.from], 1) = 0
    /\ PixAt(heap0[call.from], 2) = 1
    /\ PixAt(heap[call.pixs], 1) = 255
    /\ PixAt(heap[call.pixs], 2) = 0
    /\ PixAt(heap[ret], 2) = 1

\* C22: pixConvertForPSWrap returns, for a source of 1, 2, 4, 8, 16 or 32
\* bpp with or without colormap, an image of 1, 8 or 32 bpp that carries no
\* colormap; a colormapped source comes back as 8 bpp gray when its colormap
\* has gray entries only and as 32 bpp when it has a colour.
C22_PSWrapRemovesColormap ==
    (call.op = "pixConvertForPSWrap" /\ call.pixs # NULL) =>
        LET src == heap0[call.pixs]
        IN  /\ ret # NULL
            /\ heap[ret].d \in {1, 8, 32}
            /\ ~heap[ret].hascmap
            /\ src.hascmap =>
                  heap[ret].d = (IF pixcmapHasColor(src.cmap) THEN 32 ELSE 8)

\* C23: pixConvertTo8 returns for a source of 1, 2, 4 or 16 bpp, with or
\* without colormap, an 8 bpp image of the same size without colormap: 255
\* for a clear bit and 0 for a set bit of a 1 bpp source, 85 * v for a 2 bpp
\* source without colormap, 17 * v for a 4 bpp source without colormap, the
\* most significant byte for a 16 bpp source; for a source of any other
\* depth, 8 and 32 included, it returns null.
C23_ConvertTo8 ==
    (call.op = "pixConvertTo8" /\ call.pixs # NULL) =>
        LET src == heap0[call.pixs]
            to8(v) == CASE src.d = 1 -> IF v = 1 THEN 0 ELSE 255
                        [] src.d = 2 -> 85 * v
                        [] src.d = 4 -> 17 * v
                        [] src.d = 16 -> v \div 256
        IN  IF src.d \in {1, 2, 4, 16}
            THEN /\ ret # NULL
                 /\ heap[ret].d = 8 /\ ~heap[ret].hascmap
                 /\ heap[ret].w = src.w /\ heap[ret].h = src.h
                 /\ (src.d \in {1, 16} \/ ~src.hascmap) =>
                       \A p \in 1..(src.w * src.h) :
                           PixAt(heap[ret], p) = to8(PixAt(src, p))
            ELSE ret = NULL

\* a 16 bpp source whose first pixel is 40000 has been converted
C23_Witness ==
    /\ call.op = "pixConvertTo8"
    /\ call.pixs # NULL
    /\ heap0[call.pixs].d = 16
    /\ PixAt(heap0[call.pixs], 1) = 40000
    /\ ret # NULL
    /\ PixAt(heap[ret], 1) = 156

\* pixConvert2To8 or pixConvert4To8 has been called on a colormapped source
\* of its depth
WidenedWithCmap ==
    /\ call.op \in {"pixConvert2To8", "pixConvert4To8"}
    /\ call.pixs # NULL
    /\ heap0[call.pixs].d = (IF call.op = "pixConvert2To8" THEN 2 ELSE 4)
    /\ heap0[call.pixs].hascmap

\* C27: on a colormapped source, pixConvert2To8 and pixConvert4To8 with
\* cmapflag TRUE return an 8 bpp image with the source's colormap, entry for
\* entry in the same order, and the source's index at every pixel; with
\* cmapflag FALSE they return what pixRemoveColormap(pixs,
\* REMOVE_CMAP_TO_GRAYSCALE) returns, whatever val0 .. val3 are.
C27_ColormapCarriedOrRemoved ==
    WidenedWithCmap =>
        LET src == heap0[call.pixs]
            gray == pixRemoveColormap(heap0, call.pixs, REMOVE_CMAP_TO_GRAYSCALE,
                                      call.uninit)
        IN  /\ call.cmapflag = TRUE_ =>
                  /\ ret # NULL
                  /\ heap[ret].d = 8 /\ heap[ret].w = src.w /\ heap[ret].h = src.h
                  /\ heap[ret].hascmap
                  /\ heap[ret].cmap = src.cmap
                  /\ \A p \in 1..(src.w * src.h) : PixAt(heap[ret], p) = PixAt(src, p)
            /\ call.cmapflag = FALSE_ => (ret = gray.ret /\ heap = gray.heap)

\* a 2 bpp source with the four-colour colormap has been widened with
\* cmapflag TRUE, its second pixel of index 1
C27_Witness ==
    /\ WidenedWithCmap
    /\ call.op = "pixConvert2To8"
    /\ call.cmapflag = TRUE_
    /\ call.vals = <<7, 300, 7, 1>>
    /\ heap0[call.pixs].cmap = ColorCmap
    /\ heap0[call.pixs].w = MaxW + 6
    /\ ret # NULL
    /\ PixAt(heap[ret], 2) = 1

\* pixConvert1To2Cmap or pixConvert1To4Cmap has been called
CmapWidened == call.op \in {"pixConvert1To2Cmap", "pixConvert1To4Cmap"}

\* C30: pixConvert1To2Cmap and pixConvert1To4Cmap return null when pixs is
\* null or not 1 bpp; otherwise they return an image of 2 (4) bpp whose
\* colormap has (255,255,255) at index 0 and (0,0,0) at index 1 and whose
\* pixel (i, j) is the source's bit (i, j).
C30_NullOrCmapped ==
    CmapWidened =>
        IF call.pixs = NULL \/ heap0[1].d # 1
        THEN ret = NULL
        ELSE LET src == heap0[call.pixs]
             IN  /\ ret # NULL
                 /\ heap[ret].d = call.n
                 /\ heap[ret].w = src.w /\ heap[ret].h = src.h
                 /\ heap[ret].hascmap
                 /\ heap[ret].cmap = << <<255, 255, 255>>, <<0, 0, 0>> >>
                 /\ \A p \in 1..(src.w * src.h) : PixAt(heap[ret], p) = PixAt(src, p)

(***************************************************************************)
(* Claims about the tone calls on images.                                  *)
(***************************************************************************)

\* C24: pixGammaTRC with gamma 1.0 and minval < maxval returns a clone of
\* pixs, an image with exactly the pixels and colormap pixs had.
C24_GammaOneIsClone ==
    (/\ call.op = "pixGammaTRC"
     /\ call.pixs # NULL
     /\ call.pixd \in {NULL, call.pixs}
     /\ call.g2 = 2
     /\ call.minval < call.maxval
     /\ (heap0[call.pixs].hascmap \/ heap0[call.pixs].d \in {8, 32})) =>
        /\ ret = pixClone(call.pixs)
        /\ heap[ret] = heap0[call.pixs]

\* one of the four calls that take a colormapped source has run on one,
\* with pixd null or pixs
CmapToned ==
    /\ call.op \in {"pixGammaTRC", "pixContrastTRC", "pixConvertRGBToHSV",
                    "pixConvertHSVToRGB"}
    /\ call.pixs # NULL
    /\ call.pixd \in {NULL, call.pixs}
    /\ heap0[call.pixs].hascmap

\* a masked call
MaskedCall == call.op \in {"pixGammaTRCMasked", "pixContrastTRCMasked"}

\* C25: on a colormapped source pixGammaTRC, pixContrastTRC,
\* pixConvertRGBToHSV and pixConvertHSVToRGB change colormap entries only:
\* the image they return has the source's size, depth and pixel data and a
\* colormap of as many entries.  pixGammaTRCMasked and pixContrastTRCMasked
\* with a mask refuse a colormapped source, returning pixd with nothing
\* changed, and without a mask return what the unmasked call returns.
C25_ColormapOnly ==
    /\ (CmapToned /\ ret # NULL) =>
          LET src == heap0[call.pixs]
          IN  /\ heap[ret].data = src.data
              /\ heap[ret].w = src.w /\ heap[ret].h = src.h /\ heap[ret].d = src.d
              /\ heap[ret].hascmap
              /\ Len(heap[ret].cmap) = Len(src.cmap)
    /\ (MaskedCall /\ call.pixm # NULL /\ call.pixs # NULL
          /\ heap0[call.pixs].hascmap) =>
          (ret = call.pixd /\ heap = heap0)
    /\ (call.op = "pixGammaTRCMasked" /\ call.pixm = NULL) =>
          LET r == pixGammaTRC(heap0, call.pixd, call.pixs, call.g2, call.minval,
                               call.maxval)
          IN  ret = r.ret /\ heap = r.heap
    /\ (call.op = "pixContrastTRCMasked" /\ call.pixm = NULL) =>
          \E nan \in NaNToInt :
              LET r == pixContrastTRC(heap0, call.pixd, call.pixs, call.factor, nan)
              IN  ret = r.ret /\ heap = r.heap

\* pixGammaTRC has returned a new image for a colormapped source: the
\* colormap changed, the pixel data kept
C25_Witness ==
    /\ CmapToned
    /\ call.op = "pixGammaTRC"
    /\ call.pixd = NULL
    /\ ret # NULL /\ ret # call.pixs
    /\ heap[ret].cmap # heap0[call.pixs].cmap
    /\ heap[ret].data = heap0[call.pixs].data
    /\ heap0[call.pixs].d = 2

(***************************************************************************)
(* Claims about the conversions from 1 bpp.                                *)
(***************************************************************************)

Convert1ToNNames ==
    {"pixConvert1To2", "pixConvert1To4", "pixConvert1To8", "pixConvert1To16",
     "pixConvert1To32"}

\* pixConvert1ToN has been called with a 1 bpp pixs and a pixd that is null
\* or has pixs's size and depth N; val0 and val1 fit in N bits
Converted1ToN ==
    /\ call.op \in Convert1ToNNames
    /\ call.pixs # NULL
    /\ heap0[call.pixs].d = 1
    /\ \/ call.pixd = NULL
       \/ /\ heap0[call.pixd].w = heap0[call.pixs].w
          /\ heap0[call.pixd].h = heap0[call.pixs].h
          /\ heap0[call.pixd].d = call.n

\* C29: pixConvert1ToN, N in {2, 4, 8, 16, 32}, sets pixel (i, j) of the
\* destination to val1 where bit (i, j) of the source is 1 and to val0 where
\* it is 0, for every j below the width, and its row loop stores nothing
\* beyond the words of the destination row.
C29_BitSelectsValue ==
    Converted1ToN =>
        LET src == heap0[call.pixs]
        IN  /\ ret # NULL
            /\ ~call.oob
            /\ heap[ret].d = call.n
            /\ heap[ret].w = src.w /\ heap[ret].h = src.h
            /\ \A p \in 1..(src.w * src.h) :
                  PixAt(heap[ret], p) = (IF PixAt(src, p) = 1 THEN call.val1
                                         ELSE call.val0)

\* a source of MaxW + 6 pixels in two rows has gone to 16 bpp with val0 =
\* 4660 and val1 = 0
C29_Witness ==
    /\ Converted1ToN
    /\ call.op = "pixConvert1To16"
    /\ call.pixd = NULL
    /\ heap0[call.pixs].w = MaxW + 6
    /\ heap0[call.pixs].h = 2
    /\ ret # NULL
    /\ PixAt(heap0[call.pixs], 1) = 0
    /\ PixAt(heap0[call.pixs], 2) = 1
    /\ PixAt(heap[ret], 1) = 4660
    /\ PixAt(heap[ret], 2) = 0

(***************************************************************************)
(* Claims about unsharp masking.                                           *)
(***************************************************************************)

\* one of the three calls has been made with fract <= 0 on an input it takes:
\* any image for pixUnsharpMask, 8 bpp for pixUnsharpMaskGray, 32 bpp for
\* pixUnsharpMaskColor
NothingToAdd ==
    /\ call.op \in {"pixUnsharpMask", "pixUnsharpMaskGray", "pixUnsharpMaskColor"}
    /\ call.fract <= 0
    /\ call.pixs # NULL
    /\ call.op = "pixUnsharpMaskGray" => heap0[call.pixs].d = 8
    /\ call.op = "pixUnsharpMaskColor" => heap0[call.pixs].d = 32

\* C26: pixUnsharpMask, pixUnsharpMaskGray and pixUnsharpMaskColor with
\* fract <= 0 return a clone of the input and make or change no image; for
\* pixUnsharpMask that is so for an input of any depth, with or without
\* colormap.
C26_NoFractionIsClone ==
    NothingToAdd => (ret = pixClone(call.pixs) /\ heap = heap0)

\* pixUnsharpMask with fract = 0 has returned its 2 bpp colormapped input
C26_Witness ==
    /\ NothingToAdd
    /\ call.op = "pixUnsharpMask"
    /\ call.fract = 0
    /\ heap0[call.pixs].d = 2
    /\ heap0[call.pixs].hascmap
    /\ ret = call.pixs

(***************************************************************************)
(* Claims about what a call leaves alone.                                  *)
(***************************************************************************)

\* a call that is to return a new image is under way or has returned:
\* pixRemoveColormap, pixConvertRGBToColormap, pixConvertGrayToColormap8, or
\* pixGammaTRC, pixContrastTRC, pixConvertRGBToHSV with a null pixd
NotInPlace ==
    /\ call.op # "none"
    /\ call.pixs # NULL
    /\ \/ call.op \in {"pixRemoveColormap", "pixConvertRGBToColormap",
                       "pixConvertGrayToColormap8"}
       \/ /\ call.op \in {"pixGammaTRC", "pixContrastTRC", "pixConvertRGBToHSV"}
          /\ call.pixd = NULL

\* C28: pixRemoveColormap, pixConvertRGBToColormap, pixConvertGrayToColormap8
\* and, with a null pixd, pixGammaTRC, pixContrastTRC and pixConvertRGBToHSV
\* leave pixs as it was: the same size, depth, pixel data and colormap, at
\* every step of the call and after it.
C28_SourceUntouched ==
    NotInPlace => heap[call.pixs] = heap0[call.pixs]

\* pixRemoveColormap has taken the binary path with the inversion: the
\* image returned is new and has other bits than pixs, which still has its
\* colormap
C28_Witness ==
    /\ NotInPlace
    /\ call.op = "pixRemoveColormap"
    /\ call.type = REMOVE_CMAP_TO_BINARY
    /\ heap0[call.pixs].d = 1
    /\ heap0[call.pixs].cmap = BlackWhite
    /\ ret # NULL /\ ret # call.pixs
    /\ ~heap[ret].hascmap
    /\ heap[ret].data # heap0[call.pixs].data
    /\ heap[call.pixs].hascmap

====
